---- MODULE Spec2Model ----
(***************************************************************************)
(* claudepath: relocating a project directory while keeping the stored     *)
(* session data (~/.claude/projects/<encoded>/, history.jsonl) consistent. *)
(*                                                                         *)
(* Text is modelled at character level: a string is a sequence of          *)
(* one-character strings, so that prefix matching, substring replacement,  *)
(* path encoding and JSON (de)serialisation are computed as the code       *)
(* computes them.  A file of lines is a sequence of lines, each without    *)
(* its line terminator.                                                    *)
(***************************************************************************)
EXTENDS Integers, Sequences, FiniteSets, TLC

VARIABLES
    realDirs,   \* the real directories on disk: path -> "absent" | "empty" | content
    projects,   \* ~/.claude/projects: directory name -> stored directory | NoDir
    history,    \* ~/.claude/history.jsonl: sequence of lines | NoFile
    backups,    \* ~/.claude/backups/claudepath: timestamp -> backup | NoBackup
    clock,      \* datetime.now(), to the second
    pc,         \* position of the running operation
    args,       \* arguments of the running operation
    res,        \* the MoveResult being built
    found,      \* project_dir as located by find_project_dir (a name or None)
    working,    \* working_project_dir of _rename_and_update (a name or None)
    moved,      \* the physical move of the real directory has completed
    err,        \* the exception in flight / raised: "none" | "MoveError" | "OSError"
    note,       \* what the raised error's message states
    restored,   \* return value of the restore_backup run by the rollback
    pre         \* the state of the disk when the operation was called

vars == <<realDirs, projects, history, backups, clock, pc, args, res, found,
          working, moved, err, note, restored, pre>>

-----------------------------------------------------------------------------
(* Strings (str): sequences of characters                                  *)

\* s[i:i+len(p)] == p
MatchAt(s, p, i) ==
    /\ i >= 1
    /\ i + Len(p) - 1 <= Len(s)
    /\ SubSeq(s, i, i + Len(p) - 1) = p

\* p in s
Contains(s, p) == \E i \in 1..(Len(s) + 1) : MatchAt(s, p, i)

\* s.startswith(p)
StartsWith(s, p) == MatchAt(s, p, 1)

\* s[n:]
DropFirst(s, n) == SubSeq(s, n + 1, Len(s))

RECURSIVE ReplaceFrom(_, _, _, _, _)
\* str.replace scanning from position i; count < 0 means no limit
ReplaceFrom(s, old, new, i, count) ==
    IF i > Len(s) THEN <<>>
    ELSE IF count # 0 /\ Len(old) > 0 /\ MatchAt(s, old, i)
         THEN new \o ReplaceFrom(s, old, new, i + Len(old), count - 1)
         ELSE <<s[i]>> \o ReplaceFrom(s, old, new, i + 1, count)

\* s.replace(old, new): every non-overlapping occurrence, leftmost first
ReplaceAll(s, old, new) == ReplaceFrom(s, old, new, 1, -1)

\* s.replace(old, new, 1)
ReplaceFirst(s, old, new) == ReplaceFrom(s, old, new, 1, 1)

RECURSIVE Join(_, _)
\* sep.join(parts)
Join(parts, sep) ==
    IF parts = <<>> THEN <<>>
    ELSE IF Len(parts) = 1 THEN parts[1]
    ELSE parts[1] \o sep \o Join(Tail(parts), sep)

-----------------------------------------------------------------------------
(* encoder.py                                                              *)

\* the encoding with only the leading separator replaced
encode_path_leading_separator_only(abs_path) ==
    ReplaceFirst(abs_path, <<"/">>, <<"-">>)

\* abs_path.replace("/", "-")
encode_path(abs_path) == ReplaceAll(abs_path, <<"/">>, <<"-">>)

-----------------------------------------------------------------------------
(* JSON values, json.dumps and json.loads                                  *)

JStr(s) == [k |-> "str", v |-> s]
JNum(digits) == [k |-> "num", v |-> digits]
JArr(items) == [k |-> "arr", v |-> items]
\* members: a sequence of <<key, value>> pairs, in insertion order
JObj(members) == [k |-> "obj", v |-> members]

QUOTE == "\""
BACKSLASH == "\\"

RECURSIVE EscapeStr(_)
\* json.dumps(..., ensure_ascii=False) of the inside of a string
EscapeStr(s) ==
    IF s = <<>> THEN <<>>
    ELSE IF Head(s) \in {QUOTE, BACKSLASH}
         THEN <<BACKSLASH, Head(s)>> \o EscapeStr(Tail(s))
         ELSE <<Head(s)>> \o EscapeStr(Tail(s))

RECURSIVE Dumps(_)
\* json.dumps(obj, ensure_ascii=False): separators ", " and ": "
Dumps(x) ==
    CASE x.k = "str" -> <<QUOTE>> \o EscapeStr(x.v) \o <<QUOTE>>
      [] x.k = "num" -> x.v
      [] x.k = "arr" ->
            <<"[">> \o Join([i \in 1..Len(x.v) |-> Dumps(x.v[i])], <<",", " ">>)
                    \o <<"]">>
      [] x.k = "obj" ->
            <<"{">> \o Join([i \in 1..Len(x.v) |->
                               <<QUOTE>> \o EscapeStr(x.v[i][1]) \o <<QUOTE>>
                               \o <<":", " ">> \o Dumps(x.v[i][2])],
                            <<",", " ">>)
                    \o <<"}">>

ParseFail == [ok |-> FALSE]
ParseOk(val, next) == [ok |-> TRUE, val |-> val, next |-> next]

RECURSIVE SkipWs(_, _)
SkipWs(t, i) == IF i <= Len(t) /\ t[i] = " " THEN SkipWs(t, i + 1) ELSE i

\* a lone surrogate code point, as json.loads returns it for the escape
\* \ud83d that is not followed by a low surrogate; SurrogateHex stands for
\* the four hexadecimal digits of the escape
Surrogate == "U+D83D"
SurrogateHex == "d83d"

RECURSIVE ScanString(_, _, _)
\* the characters after an opening quote, up to the closing one
ScanString(t, i, acc) ==
    IF i > Len(t) THEN ParseFail
    ELSE IF t[i] = QUOTE THEN ParseOk(acc, i + 1)
    ELSE IF t[i] = BACKSLASH
         THEN IF i + 1 <= Len(t) /\ t[i + 1] \in {QUOTE, BACKSLASH, "/"}
              THEN ScanString(t, i + 2, Append(acc, t[i + 1]))
              ELSE IF i + 2 <= Len(t) /\ t[i + 1] = "u" /\ t[i + 2] = SurrogateHex
              THEN ScanString(t, i + 3, Append(acc, Surrogate))
              ELSE ParseFail
    ELSE ScanString(t, i + 1, Append(acc, t[i]))

RECURSIVE ScanDigits(_, _)
ScanDigits(t, i) == IF i <= Len(t) /\ t[i] = "1" THEN ScanDigits(t, i + 1) ELSE i

RECURSIVE ScanValue(_, _)
RECURSIVE ScanItems(_, _, _)
RECURSIVE ScanMembers(_, _, _)

\* one JSON value starting at t[i]
ScanValue(t, i) ==
    IF i > Len(t) THEN ParseFail
    ELSE CASE t[i] = QUOTE ->
                LET s == ScanString(t, i + 1, <<>>)
                IN  IF s.ok THEN ParseOk(JStr(s.val), s.next) ELSE ParseFail
           [] t[i] = "1" ->
                LET j == ScanDigits(t, i)
                IN  ParseOk(JNum(SubSeq(t, i, j - 1)), j)
           [] t[i] = "[" ->
                LET j == SkipWs(t, i + 1)
                IN  IF j <= Len(t) /\ t[j] = "]" THEN ParseOk(JArr(<<>>), j + 1)
                    ELSE ScanItems(t, j, <<>>)
           [] t[i] = "{" ->
                LET j == SkipWs(t, i + 1)
                IN  IF j <= Len(t) /\ t[j] = "}" THEN ParseOk(JObj(<<>>), j + 1)
                    ELSE ScanMembers(t, j, <<>>)
           [] OTHER -> ParseFail

\* the items of an array, t[i] being the start of the next item
ScanItems(t, i, acc) ==
    LET item == ScanValue(t, i)
    IN  IF ~item.ok THEN ParseFail
        ELSE LET j == SkipWs(t, item.next)
                 acc2 == Append(acc, item.val)
             IN  IF j > Len(t) THEN ParseFail
                 ELSE IF t[j] = "]" THEN ParseOk(JArr(acc2), j + 1)
                 ELSE IF t[j] = "," THEN ScanItems(t, SkipWs(t, j + 1), acc2)
                 ELSE ParseFail

\* the members of an object, t[i] being the opening quote of the next key
ScanMembers(t, i, acc) ==
    IF i > Len(t) \/ t[i] # QUOTE THEN ParseFail
    ELSE LET key == ScanString(t, i + 1, <<>>)
         IN  IF ~key.ok THEN ParseFail
             ELSE LET c == SkipWs(t, key.next)
                  IN  IF c > Len(t) \/ t[c] # ":" THEN ParseFail
                      ELSE LET val == ScanValue(t, SkipWs(t, c + 1))
                           IN  IF ~val.ok THEN ParseFail
                               ELSE LET j == SkipWs(t, val.next)
                                        acc2 == Append(acc, <<key.val, val.val>>)
                                    IN  IF j > Len(t) THEN ParseFail
                                        ELSE IF t[j] = "}"
                                             THEN ParseOk(JObj(acc2), j + 1)
                                        ELSE IF t[j] = ","
                                             THEN ScanMembers(t, SkipWs(t, j + 1), acc2)
                                        ELSE ParseFail

\* json.loads(text): ok = FALSE stands for JSONDecodeError
Loads(text) ==
    LET r == ScanValue(text, SkipWs(text, 1))
    IN  IF r.ok /\ SkipWs(text, r.next) > Len(text)
        THEN [ok |-> TRUE, val |-> r.val]
        ELSE [ok |-> FALSE]

-----------------------------------------------------------------------------
(* updaters.py: the line-level rewrite                                     *)

\* what replace_path_values does to one value held in a dict or list
RECURSIVE ReplacedValue(_, _, _)
ReplacedValue(val, old, new) ==
    CASE val.k = "str" ->
            IF val.v = old \/ StartsWith(val.v, old \o <<"/">>)
            THEN JStr(new \o DropFirst(val.v, Len(old)))
            ELSE val
      [] val.k = "arr" ->
            JArr([i \in 1..Len(val.v) |-> ReplacedValue(val.v[i], old, new)])
      [] val.k = "obj" ->
            JObj([i \in 1..Len(val.v) |->
                    <<val.v[i][1], ReplacedValue(val.v[i][2], old, new)>>])
      [] OTHER -> val

\* whether replace_path_values sets changed = True below val
RECURSIVE ValueMatches(_, _)
ValueMatches(val, old) ==
    CASE val.k = "str" -> val.v = old \/ StartsWith(val.v, old \o <<"/">>)
      [] val.k = "arr" -> \E i \in 1..Len(val.v) : ValueMatches(val.v[i], old)
      [] val.k = "obj" -> \E i \in 1..Len(val.v) : ValueMatches(val.v[i][2], old)
      [] OTHER -> FALSE

\* replace_path_values(obj, old, new): the object after the call and the
\* returned flag; an obj that is neither dict nor list is returned as it is
replace_path_values(obj, old, new) ==
    IF obj.k \in {"obj", "arr"}
    THEN [obj |-> ReplacedValue(obj, old, new), changed |-> ValueMatches(obj, old)]
    ELSE [obj |-> obj, changed |-> FALSE]

\* the line written for a parsed line: r is what replace_path_values gave
RewriteReplaced(line, r) ==
    IF r.changed
    THEN [line |-> Dumps(r.obj), changed |-> TRUE]
    ELSE [line |-> line, changed |-> FALSE]

\* the line written once json.loads has run: parsed is its outcome, a line
\* that does not parse takes the plain string replacement
RewriteLoaded(line, parsed, old, new) ==
    IF parsed.ok
    THEN RewriteReplaced(line, replace_path_values(parsed.val, old, new))
    ELSE [line |-> ReplaceAll(line, old, new), changed |-> TRUE]

\* a byte that is not valid UTF-8, and U+FFFD, the replacement character
INVALID_BYTE == "<e9>"
REPLACEMENT == "<fffd>"

\* a line as open(file_path, "r", encoding="utf-8", errors="replace") reads
\* it: every byte that is not valid UTF-8 becomes U+FFFD
ReadLine(line) ==
    [i \in 1..Len(line) |-> IF line[i] = INVALID_BYTE THEN REPLACEMENT ELSE line[i]]

\* the body of replace_in_file's loop for one line
RewriteLine(line, old, new) ==
    IF ~Contains(line, old) THEN [line |-> line, changed |-> FALSE]
    ELSE RewriteLoaded(line, Loads(line), old, new)

NoFile == [k |-> "none"]
File(lines) == [k |-> "file", lines |-> lines]

FileFailures == {"none", "read", "write"}

\* replace_in_file after its loop: out holds the loop's outcome per line
\* and lines_changed its count of changed lines
ReplaceCounted(file, out, lines_changed, dry_run, fail) ==
    IF lines_changed > 0 /\ ~dry_run /\ fail = "write"
    THEN [file |-> file, count |-> lines_changed, raised |-> TRUE]
    ELSE [file |-> IF lines_changed > 0 /\ ~dry_run
                   THEN File([i \in 1..Len(file.lines) |-> out[i].line])
                   ELSE file,
          count |-> lines_changed, raised |-> FALSE]

\* the count replace_in_file keeps in its loop
ReplaceLooped(file, out, dry_run, fail) ==
    ReplaceCounted(file, out,
                   Cardinality({i \in 1..Len(file.lines) : out[i].changed}),
                   dry_run, fail)

\* replace_in_file(file_path, old, new, dry_run): the file afterwards, the
\* returned count, and whether OSError is raised.  fail = "read": open() for
\* reading raises; fail = "write": writing or swapping the temporary file
\* raises (the temporary file is unlinked, the original is not touched).
\* The lines written are the lines as they were read.
replace_in_file(file, old, new, dry_run, fail) ==
    IF file = NoFile \/ fail = "read"
    THEN [file |-> file, count |-> 0, raised |-> FALSE]
    ELSE ReplaceLooped(file,
                       [i \in 1..Len(file.lines) |->
                           RewriteLine(ReadLine(file.lines[i]), old, new)],
                       dry_run, fail)

\* update_history not passing dry_run on: it writes in a dry run too
update_history_writing_in_dry_run(file, old_path, new_path, dry_run, fail) ==
    IF file = NoFile
    THEN [file |-> file, count |-> 0, raised |-> FALSE]
    ELSE replace_in_file(file, old_path, new_path, FALSE, fail)

\* update_history(history_path, old_path, new_path, dry_run)
update_history(file, old_path, new_path, dry_run, fail) ==
    IF file = NoFile
    THEN [file |-> file, count |-> 0, raised |-> FALSE]
    ELSE replace_in_file(file, old_path, new_path, dry_run, fail)

-----------------------------------------------------------------------------
(* updaters.py: sessions-index.json                                        *)
(*                                                                         *)
(* An index file is NoFile, BadIndex (its text is not valid JSON),          *)
(* UndecodableIndex (its bytes are not UTF-8), ListIndex (valid JSON whose *)
(* top level is a list) or Index(fmt, originalPath, entries): fmt tells    *)
(* which writer produced the bytes, originalPath = <<>> stands for a       *)
(* missing key, and an entry is [sessionId, projectPath, fullPath, meta],  *)
(* meta being all other fields.                                            *)

BadIndex == [k |-> "bad"]
UndecodableIndex == [k |-> "undecodable"]
ListIndex == [k |-> "list"]
Index(fmt, originalPath, entries) ==
    [k |-> "idx", fmt |-> fmt, originalPath |-> originalPath, entries |-> entries]
Entry(sessionId, projectPath, fullPath, meta) ==
    [sessionId |-> sessionId, projectPath |-> projectPath,
     fullPath |-> fullPath, meta |-> meta]

\* an entry whose projectPath is rewritten and whose fullPath is left alone
UpdatedEntry_keeping_fullPath(entry, old_path, new_path, new_encoded) ==
    [entry EXCEPT !.projectPath = IF @ = old_path THEN new_path ELSE @]

\* the path fields of one entry as update_sessions_index and
\* merge_sessions_index rewrite them
UpdatedEntry(entry, old_path, new_path, new_encoded) ==
    LET old_encoded == encode_path(old_path)
    IN  [entry EXCEPT
            !.projectPath = IF @ = old_path THEN new_path ELSE @,
            !.fullPath = IF Contains(@, old_encoded)
                         THEN ReplaceFirst(@, old_encoded, new_encoded)
                         ELSE @]

EntryChanges(entry, old_path) ==
    \/ entry.projectPath = old_path
    \/ Contains(entry.fullPath, encode_path(old_path))

IndexFailures == {"none", "open", "partial"}

\* update_sessions_index(index_path, old_path, new_path, new_encoded_dir,
\* dry_run): the file afterwards, the returned 0|1 and whether an error is
\* raised.  write_text truncates and writes in place: fail = "open" raises
\* before the file is touched, fail = "partial" after it was truncated.
\* read_text raises UnicodeDecodeError on bytes that are not UTF-8 and
\* data.get raises AttributeError on a list: neither is a JSONDecodeError
\* or an OSError, so the except clause (40) lets them through.
update_sessions_index(idx, old_path, new_path, new_encoded_dir, dry_run, fail) ==
    IF idx.k \in {"undecodable", "list"}
    THEN [idx |-> idx, ret |-> 0, raised |-> TRUE]
    ELSE IF idx.k # "idx" THEN [idx |-> idx, ret |-> 0, raised |-> FALSE]
    ELSE LET changed ==
                 \/ idx.originalPath = old_path
                 \/ \E i \in 1..Len(idx.entries) : EntryChanges(idx.entries[i], old_path)
             data == Index("indent2",
                           IF idx.originalPath = old_path THEN new_path
                           ELSE idx.originalPath,
                           [i \in 1..Len(idx.entries) |->
                              UpdatedEntry(idx.entries[i], old_path, new_path,
                                           new_encoded_dir)])
             writes == changed /\ ~dry_run
         IN  IF writes /\ fail = "open"
             THEN [idx |-> idx, ret |-> 0, raised |-> TRUE]
             ELSE IF writes /\ fail = "partial"
             THEN [idx |-> BadIndex, ret |-> 0, raised |-> TRUE]
             ELSE [idx |-> IF writes THEN data ELSE idx,
                   ret |-> IF changed THEN 1 ELSE 0, raised |-> FALSE]

\* the indices from i on of entries, in order, whose sessionId is in
\* existing_ids (dup = TRUE: the skipped ones) or is not (dup = FALSE: the
\* appended ones)
RECURSIVE SelectIdx(_, _, _, _)
SelectIdx(entries, existing_ids, dup, i) ==
    IF i > Len(entries) THEN <<>>
    ELSE IF (entries[i].sessionId \in existing_ids) = dup
         THEN <<i>> \o SelectIdx(entries, existing_ids, dup, i + 1)
         ELSE SelectIdx(entries, existing_ids, dup, i + 1)

\* merge_sessions_index(dst_index, src_index, old_path, new_path,
\* new_encoded, dry_run): the destination file afterwards, the returned
\* count, the session ids warned about (in order) and whether OSError is
\* raised.  existing_ids is computed once, before the loop.
merge_sessions_index(dst, src, old_path, new_path, new_encoded, dry_run, fail) ==
    IF dst.k # "idx" \/ src.k # "idx"
    THEN [dst |-> dst, merged |-> 0, warned |-> <<>>, raised |-> FALSE]
    ELSE LET existing_ids == {dst.entries[i].sessionId : i \in 1..Len(dst.entries)}
             fresh == SelectIdx(src.entries, existing_ids, FALSE, 1)
             dups == SelectIdx(src.entries, existing_ids, TRUE, 1)
             merged == Len(fresh)
             dst_data ==
                 Index("indent2",
                       IF dst.originalPath = old_path THEN new_path
                       ELSE dst.originalPath,
                       dst.entries \o
                       [j \in 1..merged |->
                          UpdatedEntry(src.entries[fresh[j]], old_path, new_path,
                                       new_encoded)])
             warned == [j \in 1..Len(dups) |-> src.entries[dups[j]].sessionId]
             writes == merged > 0 /\ ~dry_run
         IN  IF writes /\ fail = "open"
             THEN [dst |-> dst, merged |-> merged, warned |-> warned, raised |-> TRUE]
             ELSE IF writes /\ fail = "partial"
             THEN [dst |-> BadIndex, merged |-> merged, warned |-> warned,
                   raised |-> TRUE]
             ELSE [dst |-> IF writes THEN dst_data ELSE dst,
                   merged |-> merged, warned |-> warned, raised |-> FALSE]

-----------------------------------------------------------------------------
(* The disk                                                                *)
(*                                                                         *)
(* A stored directory is NoDir or Dir(idx, logs): its sessions-index.json  *)
(* and its *.jsonl files by relative path (sub-agent logs included), each  *)
(* a File or NoFile.                                                       *)

NoDir == [k |-> "none"]
Dir(idx, logs) == [k |-> "dir", idx |-> idx, logs |-> logs]

\* the relative paths of the log files a stored directory may hold
LogNames == {"s1.jsonl", "s1/subagents/agent.jsonl", "s2.jsonl"}

NoLogs == [f \in LogNames |-> NoFile]

\* project_dir.rglob("*.jsonl")
JsonlFiles(dir) == {f \in LogNames : dir.logs[f] # NoFile}

\* None, for a directory name
NoName == <<>>

\* the name _atomic_restore_dir moves the live directory aside to
AsideName(name) == name \o <<".claudepath-old">>

\* Path.cwd(), which Path("").resolve() and relative paths resolve against
Cwd == <<"/", "w">>

RECURSIVE StripSlashes(_)
StripSlashes(p) ==
    IF Len(p) > 1 /\ p[Len(p)] = "/" THEN StripSlashes(SubSeq(p, 1, Len(p) - 1))
    ELSE p

\* str(Path(p).resolve()) on a disk without symbolic links or dot segments
Resolve(p) ==
    IF p = <<>> THEN Cwd
    ELSE IF p[1] = "/" THEN StripSlashes(p)
    ELSE Cwd \o <<"/">> \o StripSlashes(p)

-----------------------------------------------------------------------------
(* scanner.py                                                              *)

\* JSON null where a path is expected: "originalPath": null gives
\* data.get("originalPath", "") = None
Null == <<"null">>

\* whether the fallback scan of find_project_dir returns the directory
\* holding index file idx
IndexNames(idx, normalized) ==
    /\ idx.k = "idx"
    /\ idx.originalPath # Null
    /\ \/ Resolve(idx.originalPath) = normalized
       \/ /\ Len(idx.entries) > 0
          /\ idx.entries[1].projectPath # Null
          /\ Resolve(idx.entries[1].projectPath) = normalized

\* whether the fallback scan raises on index file idx: Path(None) is a
\* TypeError, which the except clause (JSONDecodeError, OSError) lets through
IndexRaises(idx, normalized) ==
    /\ idx.k = "idx"
    /\ \/ idx.originalPath = Null
       \/ /\ Resolve(idx.originalPath) # normalized
          /\ Len(idx.entries) > 0
          /\ idx.entries[1].projectPath = Null

\* the error the fallback scan raises on index file idx ("none": it raises
\* nothing): read_text raises UnicodeDecodeError on bytes that are not
\* UTF-8, data.get raises AttributeError on a list, and the except clause
\* lets these through as well
ScanRaises(idx, normalized) ==
    CASE idx.k = "undecodable" -> "UnicodeDecodeError"
      [] idx.k = "list" -> "AttributeError"
      [] IndexRaises(idx, normalized) -> "TypeError"
      [] OTHER -> "none"

\* the outcomes of a find_project_dir call that raised
ScanErrors == {<<"TypeError">>, <<"UnicodeDecodeError">>, <<"AttributeError">>}

\* find_project_dir(claude_dir, project_path): the set of outcomes the call
\* may have: a directory name, {NoName} for None, one of ScanErrors.  The fallback
\* scan stops at the first directory, in the order of iterdir() (which is
\* not specified), whose index matches or makes it raise.  A projects root
\* that does not exist is the root in which every name is NoDir.
find_project_dir(projs, project_path) ==
    LET encoded == encode_path(project_path)
        normalized == Resolve(project_path)
        matches == {n \in DOMAIN projs :
                      projs[n] # NoDir /\ IndexNames(projs[n].idx, normalized)}
        raises == {<<ScanRaises(projs[n].idx, normalized)>> :
                      n \in {m \in DOMAIN projs : projs[m] # NoDir}}
                  \cap ScanErrors
    IN  IF encoded \in DOMAIN projs /\ projs[encoded] # NoDir THEN {encoded}
        ELSE IF matches # {} \/ raises # {} THEN matches \cup raises
        ELSE {NoName}

-----------------------------------------------------------------------------
(* backup.py                                                               *)

NoBackup == [k |-> "none"]
NoManifest == [k |-> "none"]
\* manifest.txt: project_dir=..., history_path=... and, when extra_dir was
\* given, merge_target_dir=... (NoName: the line is absent)
Manifest(project_dir, merge_target_dir) ==
    [k |-> "manifest", project_dir |-> project_dir, history_path |-> "history.jsonl",
     merge_target_dir |-> merge_target_dir]
Backup(project_dir, merge_target_dir, hist, manifest) ==
    [k |-> "backup", project_dir |-> project_dir,
     merge_target_dir |-> merge_target_dir, history |-> hist, manifest |-> manifest]

Exists(projs, name) == name # NoName /\ name \in DOMAIN projs /\ projs[name] # NoDir

BackupFailures == {"none", "mkdir", "copy"}

\* a backup that leaves extra_dir out
create_backup_without_extra_dir(at, projs, hist, project_dir, extra_dir, fail) ==
    LET base == IF at = NoBackup THEN Backup(NoDir, NoDir, NoFile, NoManifest) ELSE at
        has_project == Exists(projs, project_dir)
        b1 == IF has_project THEN [base EXCEPT !.project_dir = projs[project_dir]]
              ELSE base
        b3 == IF hist # NoFile THEN [b1 EXCEPT !.history = hist] ELSE b1
        b4 == [b3 EXCEPT !.manifest = Manifest(project_dir, NoName)]
    IN  IF fail = "mkdir" THEN [backup |-> at, raised |-> TRUE]
        ELSE IF has_project /\ (fail = "copy" \/ base.project_dir # NoDir)
        THEN [backup |-> base, raised |-> TRUE]
        ELSE [backup |-> b4, raised |-> FALSE]

\* create_backup(project_dir, history_path, backup_base, extra_dir) run at
\* a second whose backup directory is `at` (NoBackup: no such directory
\* yet): the backup directory afterwards and whether OSError is raised.
\* fail = "mkdir": backup_dir.mkdir raises; fail = "copy": copying
\* project_dir raises, leaving the directory without a manifest.
\* copytree raises FileExistsError when its destination exists.
create_backup(at, projs, hist, project_dir, extra_dir, fail) ==
    LET base == IF at = NoBackup THEN Backup(NoDir, NoDir, NoFile, NoManifest) ELSE at
        has_project == Exists(projs, project_dir)
        has_extra == Exists(projs, extra_dir)
        b1 == IF has_project THEN [base EXCEPT !.project_dir = projs[project_dir]]
              ELSE base
        b2 == IF has_extra THEN [b1 EXCEPT !.merge_target_dir = projs[extra_dir]]
              ELSE b1
        b3 == IF hist # NoFile THEN [b2 EXCEPT !.history = hist] ELSE b2
        b4 == [b3 EXCEPT !.manifest = Manifest(project_dir, extra_dir)]
    IN  IF fail = "mkdir" THEN [backup |-> at, raised |-> TRUE]
        ELSE IF has_project /\ (fail = "copy" \/ base.project_dir # NoDir)
        THEN [backup |-> base, raised |-> TRUE]
        ELSE IF has_extra /\ b1.merge_target_dir # NoDir
        THEN [backup |-> b1, raised |-> TRUE]
        ELSE [backup |-> b4, raised |-> FALSE]

\* the files of a directory, the index being "sessions-index.json"
FilesOf(dir) ==
    {f \in LogNames : dir.logs[f] # NoFile}
        \cup (IF dir.idx # NoFile THEN {"sessions-index.json"} ELSE {})

\* dir with only the files in keep
Restrict(dir, keep) ==
    Dir(IF "sessions-index.json" \in keep THEN dir.idx ELSE NoFile,
        [f \in LogNames |-> IF f \in keep THEN dir.logs[f] ELSE NoFile])

\* what shutil.copytree may leave at its destination when it raises after
\* having created it: the directory with some of its files not copied
PartialCopies(dir) ==
    {Restrict(dir, keep) : keep \in (SUBSET FilesOf(dir)) \ {FilesOf(dir)}}
        \cup (IF FilesOf(dir) = {} THEN {dir} ELSE {})

\* the least a failing copytree leaves: the directory, created and empty
EmptyCopy(dir) == IF dir = NoDir THEN NoDir ELSE Restrict(dir, {})

RestoreDirFailures == {"none", "rename", "mkdir", "partial", "cleanup"}

\* _atomic_restore_dir(backup_src, target): the stored directories
\* afterwards and the returned flag, `partial` being what a failing
\* copytree left at target.
\*   "rename":  os.rename(target, temp_old) raises
\*   "mkdir":   copytree raises before creating target
\*   "partial": copytree raises after creating target
\*   "cleanup": rmtree(temp_old) raises after the copy succeeded
_atomic_restore_dir(projs, backup_src, target, fail, partial) ==
    LET temp_old == AsideName(target)
        existed == projs[target] # NoDir
        \* target.exists(): stale temporary removed, target renamed aside
        aside == IF existed
                 THEN [projs EXCEPT ![temp_old] = projs[target], ![target] = NoDir]
                 ELSE projs
        unstale == IF existed THEN [projs EXCEPT ![temp_old] = NoDir] ELSE projs
    IN  CASE fail = "rename" /\ existed ->
                [projs |-> unstale, ok |-> FALSE]
          [] fail = "mkdir" ->
                \* except OSError: temp_old exists and target does not
                [projs |-> IF existed THEN [unstale EXCEPT ![target] = projs[target]]
                           ELSE projs,
                 ok |-> FALSE]
          [] fail = "partial" ->
                \* except OSError: target exists, nothing is renamed back
                [projs |-> [aside EXCEPT ![target] = partial], ok |-> FALSE]
          [] fail = "cleanup" /\ existed ->
                [projs |-> [aside EXCEPT ![target] = backup_src], ok |-> FALSE]
          [] OTHER ->
                [projs |-> IF existed
                           THEN [aside EXCEPT ![target] = backup_src,
                                              ![temp_old] = NoDir]
                           ELSE [aside EXCEPT ![target] = backup_src],
                 ok |-> TRUE]

HistoryFailures == {"none", "open", "partial"}

\* how a restore is made to fail: one failure per step
RestoreFailures ==
    [project : RestoreDirFailures, merge_target : RestoreDirFailures,
     history : HistoryFailures]
NoRestoreFailure == [project |-> "none", merge_target |-> "none", history |-> "none"]

\* a restore that stops at the first step that fails
restore_backup_fail_fast(backup, projs, hist, fail, pp, pm) ==
    IF backup = NoBackup \/ backup.manifest = NoManifest
    THEN [projects |-> projs, history |-> hist, ok |-> FALSE]
    ELSE LET project_dir == backup.manifest.project_dir
             merge_target_dir == backup.manifest.merge_target_dir
             r1 == IF backup.project_dir # NoDir
                   THEN _atomic_restore_dir(projs, backup.project_dir, project_dir,
                                            fail.project, pp)
                   ELSE [projs |-> projs, ok |-> TRUE]
             r2 == IF r1.ok /\ backup.merge_target_dir # NoDir
                            /\ merge_target_dir # NoName
                   THEN _atomic_restore_dir(r1.projs, backup.merge_target_dir,
                                            merge_target_dir, fail.merge_target, pm)
                   ELSE [projs |-> r1.projs, ok |-> r1.ok]
             r3 == IF r2.ok /\ backup.history # NoFile
                   THEN CASE fail.history = "open" -> [hist |-> hist, ok |-> FALSE]
                          [] fail.history = "partial" ->
                                [hist |-> File(<<>>), ok |-> FALSE]
                          [] OTHER -> [hist |-> backup.history, ok |-> TRUE]
                   ELSE [hist |-> hist, ok |-> r2.ok]
         IN  [projects |-> r2.projs, history |-> r3.hist, ok |-> r3.ok]

\* a restore that leaves history.jsonl as it finds it
restore_backup_without_history(backup, projs, hist, fail, pp, pm) ==
    IF backup = NoBackup \/ backup.manifest = NoManifest
    THEN [projects |-> projs, history |-> hist, ok |-> FALSE]
    ELSE LET project_dir == backup.manifest.project_dir
             merge_target_dir == backup.manifest.merge_target_dir
             r1 == IF backup.project_dir # NoDir
                   THEN _atomic_restore_dir(projs, backup.project_dir, project_dir,
                                            fail.project, pp)
                   ELSE [projs |-> projs, ok |-> TRUE]
             r2 == IF backup.merge_target_dir # NoDir /\ merge_target_dir # NoName
                   THEN _atomic_restore_dir(r1.projs, backup.merge_target_dir,
                                            merge_target_dir, fail.merge_target, pm)
                   ELSE [projs |-> r1.projs, ok |-> TRUE]
         IN  [projects |-> r2.projs, history |-> hist, ok |-> r1.ok /\ r2.ok]

\* restore_backup(backup_dir): the disk afterwards and the returned flag.
\* pp and pm: what a failing copytree leaves of each directory.
restore_backup(backup, projs, hist, fail, pp, pm) ==
    IF backup = NoBackup \/ backup.manifest = NoManifest
    THEN [projects |-> projs, history |-> hist, ok |-> FALSE]
    ELSE LET project_dir == backup.manifest.project_dir
             merge_target_dir == backup.manifest.merge_target_dir
             r1 == IF backup.project_dir # NoDir
                   THEN _atomic_restore_dir(projs, backup.project_dir, project_dir,
                                            fail.project, pp)
                   ELSE [projs |-> projs, ok |-> TRUE]
             r2 == IF backup.merge_target_dir # NoDir /\ merge_target_dir # NoName
                   THEN _atomic_restore_dir(r1.projs, backup.merge_target_dir,
                                            merge_target_dir, fail.merge_target, pm)
                   ELSE [projs |-> r1.projs, ok |-> TRUE]
             r3 == IF backup.history # NoFile
                   THEN CASE fail.history = "open" -> [hist |-> hist, ok |-> FALSE]
                          [] fail.history = "partial" ->
                                [hist |-> File(<<>>), ok |-> FALSE]
                          [] OTHER -> [hist |-> backup.history, ok |-> TRUE]
                   ELSE [hist |-> hist, ok |-> TRUE]
         IN  [projects |-> r2.projs, history |-> r3.hist,
              ok |-> r1.ok /\ r2.ok /\ r3.ok]

-----------------------------------------------------------------------------
(* updaters.py and mover.py: whole-directory steps                         *)

RECURSIVE SumOver(_, _)
SumOver(S, f) ==
    IF S = {} THEN 0
    ELSE LET x == CHOOSE y \in S : TRUE IN f[x] + SumOver(S \ {x}, f)

\* the outcome with files_updated incremented for every file visited
JsonlOutcome_counting_every_file(dir, r, dry_run, fail_at, done) ==
    LET files == DOMAIN r
        fails == fail_at \in files /\ r[fail_at].count > 0 /\ ~dry_run
        seen == IF fails THEN (done \cap files) \ {fail_at} ELSE files
    IN  [logs |-> [f \in LogNames |-> IF f \in seen THEN r[f].file ELSE dir.logs[f]],
         files_updated |-> Cardinality(seen),
         total_lines_changed |-> SumOver(seen, [f \in files |-> r[f].count]),
         raised |-> fails]

\* update_jsonl_files(project_dir, old_path, new_path, dry_run): the log
\* files afterwards, the returned pair and whether OSError is raised.
\* rglob yields the files in no specified order: when the write of file
\* fail_at raises, the files in `done` have been rewritten before it
\* (fail_at = "": no write fails).
JsonlOutcome(dir, r, dry_run, fail_at, done) ==
    LET files == DOMAIN r
        fails == fail_at \in files /\ r[fail_at].count > 0 /\ ~dry_run
        seen == IF fails THEN (done \cap files) \ {fail_at} ELSE files
    IN  [logs |-> [f \in LogNames |-> IF f \in seen THEN r[f].file ELSE dir.logs[f]],
         files_updated |-> Cardinality({f \in seen : r[f].count > 0}),
         total_lines_changed |-> SumOver(seen, [f \in files |-> r[f].count]),
         raised |-> fails]

update_jsonl_files(dir, old_path, new_path, dry_run, fail_at, done) ==
    JsonlOutcome(dir,
                 [f \in JsonlFiles(dir) |->
                    replace_in_file(dir.logs[f], old_path, new_path, dry_run, "none")],
                 dry_run, fail_at, done)

MergeFailures == {"none", "copy", "rmtree"}

\* a merge that removes the source although a copy has failed
_merge_project_dirs_removing_source_anyway(projs, src, dst, fail, fail_at, done) ==
    LET files == JsonlFiles(projs[src])
        copy_fails == fail = "copy" /\ fail_at \in files
        copied == IF copy_fails THEN done \cap (files \ {fail_at}) ELSE files
        merged_dst == [projs[dst] EXCEPT
                          !.logs = [f \in LogNames |->
                                      IF f \in copied THEN projs[src].logs[f] ELSE @[f]]]
    IN  [projs |-> [projs EXCEPT ![dst] = merged_dst, ![src] = NoDir],
         raised |-> copy_fails \/ fail = "rmtree"]

\* _merge_project_dirs(src, dst, dry_run), not in dry-run: the stored
\* directories afterwards and whether OSError is raised.  Every file of
\* src except sessions-index.json is copied over dst's, then src is
\* removed.  fail = "copy": the copy of file fail_at raises after the files
\* in `done` were copied; fail = "rmtree": removing src raises.  With
\* src = dst, copy2 raises SameFileError on the first file.
_merge_project_dirs(projs, src, dst, fail, fail_at, done) ==
    LET files == JsonlFiles(projs[src])
        copy_fails == (fail = "copy" /\ fail_at \in files) \/ (src = dst /\ files # {})
        copied == IF src = dst THEN {}
                  ELSE IF copy_fails THEN done \cap (files \ {fail_at})
                  ELSE files
        merged_dst == [projs[dst] EXCEPT
                          !.logs = [f \in LogNames |->
                                      IF f \in copied THEN projs[src].logs[f] ELSE @[f]]]
        after_copy == [projs EXCEPT ![dst] = merged_dst]
    IN  IF copy_fails THEN [projs |-> after_copy, raised |-> TRUE]
        ELSE IF fail = "rmtree" THEN [projs |-> after_copy, raised |-> TRUE]
        ELSE [projs |-> [after_copy EXCEPT ![src] = NoDir], raised |-> FALSE]

\* MoveResult.__init__; backup_path = 0 stands for None
MoveResult ==
    [project_dir_renamed |-> FALSE, sessions_merged |-> 0,
     sessions_index_updated |-> 0, jsonl_files_updated |-> 0,
     jsonl_lines_changed |-> 0, history_lines_changed |-> 0,
     backup_path |-> 0, dry_run |-> FALSE, warned |-> <<>>]

-----------------------------------------------------------------------------
(* The disks and calls explored                                            *)

\* the path of the project the stored data is about: a plain one, and one
\* holding a character that JSON writers escape
TrackedPaths == {<<"/", "a">>, <<"/", QUOTE>>}
NewPath == <<"/", "b">>
OtherPath == <<"/", "o">>
\* a directory below path, and a sibling that has path as a string prefix
Below(path) == path \o <<"/", "s">>
Sibling(path) == path \o <<"b">>

\* the name of a stored directory that does not encode its project's path
DriftName == <<"-", "x">>

StoredNames == {encode_path(p) : p \in TrackedPaths \cup {NewPath}} \cup {DriftName}
AllNames == StoredNames \cup {AsideName(n) : n \in StoredNames}

\* <claude_dir>/projects/<dir>/<sessionId>.jsonl
FullPath(dir, sessionId) == <<"/", "c", "/">> \o dir \o <<"/", sessionId, ".jsonl">>

\* a log line as the tool writes it
Line(obj) == Dumps(obj)
Cwd1(path) == JObj(<< <<<<"c", "w", "d">>, JStr(path)>> >>)

\* the stored directory of a project at `path`, kept under the name `dir`
ProjectDir(path, dir) ==
    Dir(Index("orig", path, <<Entry("s1", path, FullPath(dir, "s1"), "m1")>>),
        [f \in LogNames |->
            CASE f = "s1.jsonl" ->
                    File(<< Line(JObj(<< <<<<"c", "w", "d">>, JStr(path)>>,
                                         <<<<"m">>, JArr(<<JStr(Below(path)),
                                                          JStr(Sibling(path)),
                                                          JNum(<<"1">>)>>)>> >>)),
                            Line(Cwd1(OtherPath)) >>)
              [] f = "s1/subagents/agent.jsonl" -> File(<< Line(Cwd1(Below(path))) >>)
              [] OTHER -> NoFile])

\* a stored directory that already sits at the new path's encoded name
TargetDir ==
    Dir(Index("orig", NewPath,
              <<Entry("s2", NewPath, FullPath(encode_path(NewPath), "s2"), "n2")>>),
        [f \in LogNames |->
            CASE f = "s2.jsonl" -> File(<< Line(Cwd1(NewPath)) >>)
              [] OTHER -> NoFile])

\* history.jsonl: the project, another project, a sibling project, and a
\* line cut short by an interrupted write
HistoryOf(path) ==
    File(<< Line(JObj(<< <<<<"p">>, JStr(path)>>, <<<<"t">>, JNum(<<"1">>)>> >>)),
            Line(JObj(<< <<<<"p">>, JStr(OtherPath)>> >>)),
            Line(JObj(<< <<<<"p">>, JStr(Sibling(path))>> >>)),
            <<"{", QUOTE, "p", QUOTE, ":", " ", QUOTE>> \o Sibling(path) >>)

\* the stored directories of a disk whose tracked project is at `path`
ProjectsOf(path) ==
    {[n \in AllNames |->
        CASE n = encode_path(path) -> atOld
          [] n = encode_path(NewPath) -> atNew
          [] n = DriftName -> atDrift
          [] OTHER -> NoDir] :
        atOld \in {NoDir, ProjectDir(path, encode_path(path))},
        atNew \in {NoDir, TargetDir, ProjectDir(path, encode_path(NewPath))},
        atDrift \in {NoDir, ProjectDir(path, DriftName)}}

RealPaths == TrackedPaths \cup {NewPath}
RealStates == {"absent", "empty", "files"}

\* the seconds of the clock that are explored
MaxClock == 2
NoBackups == [t \in 1..MaxClock |-> NoBackup]

\* the state of the disk the claims compare against
Snapshot == [k |-> "disk", path |-> pre.path, realDirs |-> realDirs,
             projects |-> projects, history |-> history, backups |-> backups]

NoArgs == [op |-> "none"]
Idle ==
    /\ pc = "idle" /\ args = NoArgs /\ res = MoveResult
    /\ found = NoName /\ working = NoName /\ moved = FALSE
    /\ err = "none" /\ note = "none" /\ restored = "none"

\* the disks explored: every combination for the plain path, and for the
\* path with an escaped character the project tracked under its own name
Disks ==
    {[realDirs |-> [p \in RealPaths |->
                      IF p = path THEN atOld ELSE IF p = NewPath THEN atNew
                      ELSE "absent"],
      projects |-> projs, history |-> hist, path |-> path] :
        path \in {<<"/", "a">>}, atOld \in {"absent", "files"}, atNew \in RealStates,
        projs \in ProjectsOf(<<"/", "a">>), hist \in {NoFile, HistoryOf(<<"/", "a">>)}}
    \cup
    {[realDirs |-> [p \in RealPaths |->
                      IF p = path THEN "files" ELSE IF p = NewPath THEN atNew
                      ELSE "absent"],
      projects |-> [n \in AllNames |-> IF n = encode_path(path)
                                       THEN ProjectDir(path, encode_path(path))
                                       ELSE NoDir],
      history |-> HistoryOf(path), path |-> path] :
        path \in {<<"/", QUOTE>>}, atNew \in {"absent", "empty"}}

Init ==
    \E disk \in Disks :
        /\ realDirs = disk.realDirs
        /\ projects = disk.projects
        /\ history = disk.history
        /\ backups = NoBackups
        /\ clock = 1
        /\ pre = [k |-> "none", path |-> disk.path]
        /\ Idle

-----------------------------------------------------------------------------
(* mover.py: move_project and remap_project, step by step                  *)

\* the arguments of a call, old_path and new_path being resolved first
\* (mover.py 228-229, 290-291)
Call ==
    /\ pc = "idle"
    /\ \E op \in {"move", "remap"}, old \in {pre.path},
          dry_run \in BOOLEAN, no_backup \in BOOLEAN, merge \in BOOLEAN :
         \E new \in {NewPath, NewPath \o <<"/">>, old \o <<"/">>} :
            args' = [op |-> op, old_path |-> Resolve(old), new_path |-> Resolve(new),
                     dry_run |-> dry_run, no_backup |-> no_backup, merge |-> merge]
    /\ pre' = Snapshot
    /\ pc' = "validate"
    /\ UNCHANGED <<realDirs, projects, history, backups, clock, res, found,
                   working, moved, err, note, restored>>

\* raise MoveError(...) before the try block
Reject ==
    /\ pc' = "raised" /\ err' = "MoveError" /\ note' = "plain"
    /\ UNCHANGED <<realDirs, projects, history, backups, clock, args, res, found,
                   working, moved, restored, pre>>

\* the checks without move's test of a destination that is not empty
ValidationFails_without_destination_check ==
    \/ args.old_path = args.new_path
    \/ /\ args.op = "move"
       /\ realDirs[args.old_path] = "absent"
    \/ /\ args.op = "remap"
       /\ realDirs[args.new_path] = "absent"

\* the checks of move_project (231-243) and remap_project (293-302)
ValidationFails ==
    \/ args.old_path = args.new_path
    \/ /\ args.op = "move"
       /\ \/ realDirs[args.old_path] = "absent"
          \/ realDirs[args.new_path] = "files"
    \/ /\ args.op = "remap"
       /\ realDirs[args.new_path] = "absent"

Validate ==
    /\ pc = "validate"
    /\ IF ValidationFails THEN Reject
       ELSE /\ pc' = "prepare"
            /\ UNCHANGED <<realDirs, projects, history, backups, clock, args, res,
                           found, working, moved, err, note, restored, pre>>

NewEncoded == encode_path(args.new_path)

\* _prepare_operation: locate the stored directory, create the backup
Prepare ==
    /\ pc = "prepare"
    /\ \E project_dir \in find_project_dir(projects, args.old_path),
          fail \in BackupFailures :
        LET takes == project_dir # NoName /\ ~args.dry_run /\ ~args.no_backup
            extra_dir == IF args.merge /\ Exists(projects, NewEncoded)
                         THEN NewEncoded ELSE NoName
            b == create_backup(backups[clock], projects, history, project_dir,
                               extra_dir, fail)
        IN  /\ found' = IF project_dir \in ScanErrors THEN NoName ELSE project_dir
            /\ IF project_dir \in ScanErrors
               THEN /\ pc' = "raised" /\ err' = project_dir[1] /\ note' = "none"
                    /\ res' = [res EXCEPT !.dry_run = args.dry_run]
                    /\ UNCHANGED backups
               ELSE IF takes
               THEN /\ backups' = [backups EXCEPT ![clock] = b.backup]
                    /\ IF b.raised
                       THEN /\ pc' = "raised" /\ err' = "OSError" /\ note' = "none"
                            /\ res' = [res EXCEPT !.dry_run = args.dry_run]
                       ELSE /\ pc' = IF args.op = "move" THEN "move" ELSE "rename"
                            /\ res' = [res EXCEPT !.dry_run = args.dry_run,
                                                  !.backup_path = clock]
                            /\ UNCHANGED <<err, note>>
               ELSE /\ pc' = IF args.op = "move" THEN "move" ELSE "rename"
                    /\ res' = [res EXCEPT !.dry_run = args.dry_run]
                    /\ UNCHANGED <<backups, err, note>>
    /\ UNCHANGED <<realDirs, projects, history, clock, args, working, moved,
                   restored, pre>>

\* an exception caught by the except clause of the try block
Caught(e) == pc' = "rollback" /\ err' = e

\* move_project 251-254: rmtree of an existing (empty) destination, then
\* shutil.move; failing, shutil.move raises after the rmtree
PhysicalMove ==
    /\ pc = "move"
    /\ IF args.dry_run
       THEN /\ pc' = "rename"
            /\ UNCHANGED <<realDirs, moved, err>>
       ELSE \E fails \in BOOLEAN :
              IF fails
              THEN /\ realDirs' = [realDirs EXCEPT ![args.new_path] = "absent"]
                   /\ Caught("OSError")
                   /\ UNCHANGED moved
              ELSE /\ realDirs' = [realDirs EXCEPT
                                      ![args.new_path] = realDirs[args.old_path],
                                      ![args.old_path] = "absent"]
                   /\ moved' = TRUE
                   /\ pc' = "rename"
                   /\ UNCHANGED err
    /\ UNCHANGED <<projects, history, backups, clock, args, res, found, working,
                   note, restored, pre>>

\* _rename_and_update 77-96: the conflict check, merge_sessions_index, or
\* os.rename
RenameOrMerge ==
    /\ pc = "rename"
    /\ IF ~Exists(projects, found)
       THEN /\ working' = found
            /\ pc' = "index"
            /\ UNCHANGED <<projects, res, err>>
       ELSE IF Exists(projects, NewEncoded)
       THEN IF ~args.merge
            THEN /\ Caught("MoveError")
                 /\ UNCHANGED <<projects, res, working>>
            ELSE \E fail \in IndexFailures :
                   LET m == merge_sessions_index(projects[NewEncoded].idx,
                                                 projects[found].idx, args.old_path,
                                                 args.new_path, NewEncoded,
                                                 args.dry_run, fail)
                   IN  /\ projects' = [projects EXCEPT ![NewEncoded].idx = m.dst]
                       /\ IF m.raised
                          THEN Caught("OSError") /\ UNCHANGED <<res, working>>
                          ELSE /\ res' = [res EXCEPT !.sessions_merged = m.merged,
                                                     !.warned = m.warned]
                               /\ pc' = "merge_dirs"
                               /\ UNCHANGED <<working, err>>
       ELSE IF args.dry_run
       THEN /\ res' = [res EXCEPT !.project_dir_renamed = TRUE]
            /\ working' = NewEncoded
            /\ pc' = "index"
            /\ UNCHANGED <<projects, err>>
       ELSE \E fails \in BOOLEAN :
              IF fails
              THEN Caught("OSError") /\ UNCHANGED <<projects, res, working>>
              ELSE /\ projects' = [projects EXCEPT ![NewEncoded] = projects[found],
                                                   ![found] = NoDir]
                   /\ res' = [res EXCEPT !.project_dir_renamed = TRUE]
                   /\ working' = NewEncoded
                   /\ pc' = "index"
                   /\ UNCHANGED err
    /\ UNCHANGED <<realDirs, history, backups, clock, args, found, moved, note,
                   restored, pre>>

\* _rename_and_update 89, 93-94: _merge_project_dirs
MergeDirs ==
    /\ pc = "merge_dirs"
    /\ IF args.dry_run
       THEN /\ res' = [res EXCEPT !.project_dir_renamed = TRUE]
            /\ working' = NewEncoded
            /\ pc' = "index"
            /\ UNCHANGED <<projects, err>>
       ELSE \E fail \in MergeFailures, fail_at \in LogNames, done \in SUBSET LogNames :
              LET m == _merge_project_dirs(projects, found, NewEncoded, fail,
                                           fail_at, done)
              IN  /\ projects' = m.projs
                  /\ IF m.raised
                     THEN Caught("OSError") /\ UNCHANGED <<res, working>>
                     ELSE /\ res' = [res EXCEPT !.project_dir_renamed = TRUE]
                          /\ working' = NewEncoded
                          /\ pc' = "index"
                          /\ UNCHANGED err
    /\ UNCHANGED <<realDirs, history, backups, clock, args, found, moved, note,
                   restored, pre>>


\* _update_data_files 336-340: update_sessions_index
UpdateIndex ==
    /\ pc = "index"
    /\ IF ~Exists(projects, working)
       THEN /\ pc' = "history"
            /\ UNCHANGED <<projects, res, err>>
       ELSE \E fail \in IndexFailures :
              LET u == update_sessions_index(projects[working].idx, args.old_path,
                                             args.new_path, NewEncoded,
                                             args.dry_run, fail)
              IN  /\ projects' = [projects EXCEPT ![working].idx = u.idx]
                  /\ IF u.raised
                     THEN Caught("OSError") /\ UNCHANGED res
                     ELSE /\ res' = [res EXCEPT !.sessions_index_updated = u.ret]
                          /\ pc' = "logs"
                          /\ UNCHANGED err
    /\ UNCHANGED <<realDirs, history, backups, clock, args, found, working, moved,
                   note, restored, pre>>

\* _update_data_files 342-346: update_jsonl_files
UpdateLogs ==
    /\ pc = "logs"
    /\ \E fail_at \in LogNames \cup {""}, done \in SUBSET LogNames :
         LET u == update_jsonl_files(projects[working], args.old_path, args.new_path,
                                     args.dry_run, fail_at, done)
         IN  /\ projects' = [projects EXCEPT ![working].logs = u.logs]
             /\ IF u.raised
                THEN Caught("OSError") /\ UNCHANGED res
                ELSE /\ res' = [res EXCEPT
                                   !.jsonl_files_updated = u.files_updated,
                                   !.jsonl_lines_changed = u.total_lines_changed]
                     /\ pc' = "history"
                     /\ UNCHANGED err
    /\ UNCHANGED <<realDirs, history, backups, clock, args, found, working, moved,
                   note, restored, pre>>

\* _update_data_files 348-350: update_history, then return result
UpdateHistory ==
    /\ pc = "history"
    /\ \E fail \in {"none", "write"} :
         LET u == update_history(history, args.old_path, args.new_path,
                                 args.dry_run, fail)
         IN  /\ history' = u.file
             /\ IF u.raised
                THEN Caught("OSError") /\ UNCHANGED res
                ELSE /\ res' = [res EXCEPT !.history_lines_changed = u.count]
                     /\ pc' = "done"
                     /\ UNCHANGED err
    /\ UNCHANGED <<realDirs, projects, backups, clock, args, found, working, moved,
                   note, restored, pre>>

\* the ways the restore run by a rollback is made to fail here (SpecBackup
\* explores every failure of a restore)
RollbackFailures ==
    {NoRestoreFailure,
     [NoRestoreFailure EXCEPT !.project = "partial"],
     [NoRestoreFailure EXCEPT !.history = "open"]}

\* the test without its restriction to move_project
MovesBack_in_remap_too ==
    /\ realDirs[args.new_path] # "absent"
    /\ realDirs[args.old_path] = "absent"

\* the test with the old directory's existence taken the wrong way round
MovesBack_when_old_exists ==
    /\ args.op = "move"
    /\ realDirs[args.new_path] # "absent"
    /\ realDirs[args.old_path] # "absent"

\* move_project 267-268: whether the real directory is put back; the except
\* clause of remap_project has no such step
MovesBack ==
    /\ args.op = "move"
    /\ realDirs[args.new_path] # "absent"
    /\ realDirs[args.old_path] = "absent"

\* the except clauses (move_project 262-271, remap_project 315-320)
Rollback ==
    /\ pc = "rollback"
    /\ IF res.backup_path # 0 /\ ~args.dry_run
       THEN \E fail \in RollbackFailures, move_back_fails \in BOOLEAN :
              LET b == backups[res.backup_path]
                  r == restore_backup(b, projects, history, fail,
                                      EmptyCopy(b.project_dir),
                                      EmptyCopy(b.merge_target_dir))
                  moves_back == MovesBack
              IN  /\ projects' = r.projects
                  /\ history' = r.history
                  /\ restored' = IF r.ok THEN "ok" ELSE "failed"
                  /\ IF moves_back /\ move_back_fails
                     THEN /\ err' = "OSError" /\ note' = "none"
                          /\ UNCHANGED realDirs
                     ELSE /\ realDirs' =
                               IF moves_back
                               THEN [realDirs EXCEPT
                                        ![args.old_path] = realDirs[args.new_path],
                                        ![args.new_path] = "absent"]
                               ELSE realDirs
                          /\ err' = "MoveError"
                          /\ note' = IF err = "MoveError" THEN "plain"
                                     ELSE "rolled_back"
       ELSE /\ err' = "MoveError"
            /\ note' = IF err = "MoveError" THEN "plain" ELSE "rolled_back"
            /\ UNCHANGED <<realDirs, projects, history, restored>>
    /\ pc' = "raised"
    /\ UNCHANGED <<backups, clock, args, res, found, working, moved, pre>>

Next ==
    \/ Call
    \/ Validate
    \/ Prepare
    \/ PhysicalMove
    \/ RenameOrMerge
    \/ MergeDirs
    \/ UpdateIndex
    \/ UpdateLogs
    \/ UpdateHistory
    \/ Rollback

Spec == Init /\ [][Next]_vars

-----------------------------------------------------------------------------
(* Claims about move and remap (checked under Spec)                        *)

\* the disk is as it was when the operation was called
DiskUnchanged ==
    /\ realDirs = pre.realDirs
    /\ projects = pre.projects
    /\ history = pre.history
    /\ backups = pre.backups

OldEncoded == encode_path(args.old_path)

\* the operation ended with an error after its backup was taken, and the
\* rollback's restore and move-back both succeeded
RolledBack ==
    /\ pc = "raised"
    /\ res.backup_path # 0
    /\ restored = "ok"
    /\ err = "MoveError"

\* C1: when a step fails after the backup was taken, the operation returns
\* its error with the stored directory at the old encoded name and the
\* history file in their pre-operation content, and with a stored directory
\* at the new encoded name only if there was one before, unchanged.
C1_RollbackLeavesPreState ==
    (RolledBack /\ found = OldEncoded) =>
        /\ projects[OldEncoded] = pre.projects[OldEncoded]
        /\ history = pre.history
        /\ projects[NewEncoded] = pre.projects[NewEncoded]

\* C2: a dry run of move or remap, whatever the other options and the disk,
\* mutates nothing: no real directory moved, no stored directory renamed,
\* merged or deleted, every index, log and history file byte for byte as it
\* was, and no backup directory created.
C2_DryRunMutatesNothing ==
    (pc # "idle" /\ args.dry_run) => DiskUnchanged

\* a dry run of a move that returned after having found a real directory
\* to move, sessions to merge and history lines to rewrite
C2_Witness ==
    /\ pc = "done"
    /\ args.dry_run
    /\ args.op = "move"
    /\ args.merge
    /\ res.sessions_merged > 0
    /\ res.history_lines_changed > 0

\* the value the claims expect where a record holds the string v
PathMoved(v, old, new) ==
    IF v = old THEN new
    ELSE IF StartsWith(v, old \o <<"/">>)
    THEN new \o SubSeq(v, Len(old) + 1, Len(v))
    ELSE v

\* the record the claims expect for the record val
RECURSIVE RecordMoved(_, _, _)
RecordMoved(val, old, new) ==
    CASE val.k = "str" -> JStr(PathMoved(val.v, old, new))
      [] val.k = "arr" -> JArr([i \in 1..Len(val.v) |-> RecordMoved(val.v[i], old, new)])
      [] val.k = "obj" -> JObj([i \in 1..Len(val.v) |->
                                  <<val.v[i][1], RecordMoved(val.v[i][2], old, new)>>])
      [] OTHER -> val

\* whether a line is a structured record: it parses as an object or array
IsRecord(line) == Loads(line).ok /\ Loads(line).val.k \in {"obj", "arr"}

\* every record of the file `before` is, in `after`, the record with its
\* path values moved, the other values unchanged
RecordsMoved(before, after, old, new) ==
    IF before = NoFile THEN after = NoFile
    ELSE /\ after # NoFile
         /\ Len(after.lines) = Len(before.lines)
         /\ \A i \in 1..Len(before.lines) :
               IsRecord(before.lines[i]) =>
                   /\ IsRecord(after.lines[i])
                   /\ Loads(after.lines[i]).val =
                          RecordMoved(Loads(before.lines[i]).val, old, new)

IndexMoved(before, after, old, new) ==
    /\ after.k = "idx"
    /\ before.originalPath = old => after.originalPath = new
    /\ Len(after.entries) = Len(before.entries)
    /\ \A i \in 1..Len(before.entries) :
          before.entries[i].projectPath = old => after.entries[i].projectPath = new

\* a move, not a dry run, of a tracked project with no stored directory at
\* the new encoded name, that returned its result
MoveSucceeded ==
    /\ pc = "done"
    /\ args.op = "move"
    /\ ~args.dry_run
    /\ found # NoName
    /\ ~Exists(pre.projects, NewEncoded)

\* C3: after such a move the real directory is at the new path only, the
\* stored directory under the new encoded name only, the index's
\* originalPath and projectPath fields that were the old path are the new
\* path, every log and history record value that was the old path or lay
\* under it carries the new path, the other values are unchanged, and
\* unless backups were disabled a backup holds the pre-move stored directory
\* and history file.
C3_SuccessfulMovePostState ==
    MoveSucceeded =>
        /\ realDirs[args.new_path] # "absent"
        /\ realDirs[args.old_path] = "absent"
        /\ Exists(projects, NewEncoded)
        /\ ~Exists(projects, found)
        /\ IndexMoved(pre.projects[found].idx, projects[NewEncoded].idx,
                      args.old_path, args.new_path)
        /\ \A f \in LogNames :
              RecordsMoved(pre.projects[found].logs[f], projects[NewEncoded].logs[f],
                           args.old_path, args.new_path)
        /\ RecordsMoved(pre.history, history, args.old_path, args.new_path)
        /\ ~args.no_backup =>
              /\ res.backup_path # 0
              /\ backups[res.backup_path].project_dir = pre.projects[found]
              /\ backups[res.backup_path].history = pre.history

\* the conditions under which the claims say a call is refused
InvalidCall ==
    \/ args.old_path = args.new_path
    \/ /\ args.op = "move"
       /\ \/ pre.realDirs[args.old_path] = "absent"
          \/ pre.realDirs[args.new_path] = "files"
    \/ /\ args.op = "remap"
       /\ pre.realDirs[args.new_path] = "absent"

\* C8: a call whose resolved paths are equal, a move whose source does not
\* exist or whose destination exists and is not empty, and a remap whose
\* destination does not exist, fail with an error, and nothing has been
\* changed when the error is raised.
C8_ValidationPrecedesMutation ==
    (pc \notin {"idle", "validate"} /\ InvalidCall) =>
        /\ pc = "raised"
        /\ err = "MoveError"
        /\ DiskUnchanged

\* a move onto a destination that is not empty was refused, and so was a
\* remap onto a destination that does not exist
C8_Witness ==
    /\ pc = "raised"
    /\ ~args.dry_run
    /\ \/ args.op = "move" /\ pre.realDirs[args.old_path] = "files"
                           /\ pre.realDirs[args.new_path] = "files"
       \/ args.op = "remap" /\ pre.realDirs[args.new_path] = "absent"

\* the operation ended with the error of a destination conflict: a stored
\* directory was located, another one exists at the new encoded name, and
\* merge is off
ConflictReported ==
    /\ pc = "raised"
    /\ err = "MoveError"
    /\ note = "plain"
    /\ found # NoName
    /\ ~args.merge
    /\ Exists(pre.projects, NewEncoded)

\* C9: a destination conflict without merge is reported with no mutation
\* attempted: when the error is raised the real directory has not been
\* moved and no backup directory has been created, whatever no_backup is.
C9_ConflictMutatesNothing ==
    ConflictReported =>
        /\ realDirs = pre.realDirs
        /\ backups = pre.backups

\* C11: remap never touches the real project directory: at every step of a
\* remap, whatever the options and the outcome (result, validation error,
\* failure followed by a rollback), the real directories at the old and at
\* the new path are as they were when remap was called.
C11_RemapLeavesRealDirectories ==
    (pc # "idle" /\ args.op = "remap") => realDirs = pre.realDirs

\* a remap that failed after its backup and ran its rollback, the real
\* directory being at the new path only
C11_Witness ==
    /\ pc = "raised"
    /\ args.op = "remap"
    /\ res.backup_path # 0
    /\ restored # "none"
    /\ realDirs[args.old_path] = "absent"
    /\ realDirs[args.new_path] = "files"

\* one of the operation's targets is no longer as it was at the call
TargetsMutated ==
    \/ realDirs # pre.realDirs
    \/ projects # pre.projects
    \/ history # pre.history

\* a backup has been taken by this run
BackupTaken ==
    /\ res.backup_path # 0
    /\ backups[res.backup_path] # NoBackup

\* C12: in a move or remap that is not a dry run and has backups enabled, no
\* target (real directory, stored directory, index, logs, history) is
\* mutated before a backup has been taken, also when no stored directory is
\* found for the old path.
C12_BackupPrecedesMutation ==
    (pc # "idle" /\ ~args.dry_run /\ ~args.no_backup /\ TargetsMutated)
        => BackupTaken

\* the failure was caught after the real directory had been moved, a backup
\* having been taken, and an error has been raised
FailedAfterPhysicalMove ==
    /\ pc = "raised"
    /\ args.op = "move"
    /\ moved
    /\ res.backup_path # 0

\* the real directory is at the old path and not at the new one
RealDirectoryBack ==
    /\ realDirs[args.old_path] = pre.realDirs[args.old_path]
    /\ realDirs[args.new_path] = "absent"

ReportedBackupPath == IF pc = "done" THEN res.backup_path ELSE 0

\* the call has ended, by returning or by raising
CallEnded == pc \in {"done", "raised"} /\ args.op \in {"move", "remap"}

\* C21: whenever move or remap has created a backup, the caller is told its
\* location on every outcome: in the result when the call returns, in the
\* error when the call fails after the backup was taken.
C21_BackupLocationReported ==
    (CallEnded /\ BackupTaken) => ReportedBackupPath = res.backup_path

\* a move or remap that changed the disk has returned, having renamed (or
\* merged) the stored directory it located
RenamedAndReturned ==
    /\ pc = "done" /\ args.op \in {"move", "remap"}
    /\ ~args.dry_run
    /\ found # NoName
    /\ res.project_dir_renamed
    /\ Exists(projects, NewEncoded)
    /\ projects[NewEncoded].idx.k = "idx"

\* every session entry's fullPath of the index names the directory `name`
FullPathsEmbed(idx, name) ==
    \A i \in 1..Len(idx.entries) : Contains(idx.entries[i].fullPath, name)

\* C31: after a successful non-dry-run move or remap in which a stored
\* directory was located and renamed to the new encoded name, every session
\* entry's fullPath in the index embeds the new encoded directory name,
\* also when the directory was located by the fallback scan, its name not
\* being the encoding of the old path.
C31_FullPathEmbedsNewName ==
    RenamedAndReturned => FullPathsEmbed(projects[NewEncoded].idx, NewEncoded)

\* the same when the located directory was named by the encoding of the
\* old path
FullPathRepairedFromEncodedName ==
    (RenamedAndReturned /\ found = encode_path(args.old_path))
        => FullPathsEmbed(projects[NewEncoded].idx, NewEncoded)

\* a directory located by the fallback scan was renamed and the call returned
DriftedDirRenamed ==
    /\ RenamedAndReturned
    /\ found = DriftName
    /\ pre.projects[NewEncoded] = NoDir

\* move or remap has raised a MoveError saying that the changes have been
\* rolled back
SaysRolledBack ==
    pc = "raised" /\ args.op \in {"move", "remap"} /\ note = "rolled_back"

\* C33: the rollback note is truthful: whenever move or remap raises an
\* error stating that the changes have been rolled back, a backup had been
\* taken and restore_backup was run on it; no such message comes from a run
\* with backups disabled, or from a run in which no stored directory was
\* located.
C33_RollbackNoteTruthful ==
    SaysRolledBack =>
        /\ res.backup_path # 0
        /\ restored # "none"
        /\ ~args.no_backup
        /\ found # NoName

\* the same for the runs that took a backup and changed the disk
RollbackNoteAfterBackup ==
    (SaysRolledBack /\ res.backup_path # 0 /\ ~args.dry_run) => restored # "none"

\* a run without a backup that says it rolled back what it had changed
SaysRolledBackWithoutBackup ==
    /\ SaysRolledBack
    /\ args.no_backup
    /\ projects # pre.projects

\* C34: move and remap have exactly two outcomes: they return a result
\* record or they raise MoveError; a failure at any step, locating the
\* stored directory and creating the backup included, never reaches the
\* caller as an error of another type.
C34_OnlyMoveErrorEscapes ==
    (CallEnded /\ pc = "raised") => err = "MoveError"

\* an error raised by a step of the try block, the move back of the real
\* directory not failing, reaches the caller as MoveError
StepErrorsAreWrapped ==
    (CallEnded /\ pc = "raised" /\ note # "none") => err = "MoveError"

\* the backup could not be created and OSError reached the caller
BackupErrorEscaped ==
    /\ CallEnded /\ pc = "raised"
    /\ err = "OSError"
    /\ found # NoName /\ res.backup_path = 0
    /\ projects = pre.projects

-----------------------------------------------------------------------------
(* The rewrite of one file (updaters.py), on the files explored            *)

\* the longest file explored, in lines
MaxLines == 2

\* string values around the path p: p itself, a path below it, a sibling
\* that has p as a string prefix, and an unrelated path
ValuesNear(p) == {p, Below(p), Sibling(p), OtherPath}

\* records holding such values as a plain field and nested in arrays and
\* objects
RecordsNear(p) ==
    {Cwd1(v) : v \in ValuesNear(p)}
    \cup {JObj(<< <<<<"c">>, JStr(Sibling(p))>>,
                  <<<<"m">>, JArr(<<JStr(v),
                                    JObj(<< <<<<"k">>, JStr(Below(p))>> >>),
                                    JNum(<<"1">>)>>)>> >>) : v \in {p, Sibling(p)}}
    \cup {JArr(<<JStr(p)>>)}

\* lines that are no JSON: a shell command naming a path
RawLinesNear(p) == {<<"c", "d", " ">> \o v : v \in {Below(p), Sibling(p)}}

\* a record that does not name the path and holds a byte that is not UTF-8
UndecodableLine == Line(JObj(<< <<<<"d">>, JStr(<<"x", INVALID_BYTE>>)>> >>))

LinesNear(p) ==
    {Line(r) : r \in RecordsNear(p)} \cup RawLinesNear(p) \cup {UndecodableLine}

FilesNear(p) ==
    {File(lines) : lines \in UNION {[1..n -> LinesNear(p)] : n \in 1..MaxLines}}

NoRealDirs == [p \in RealPaths |-> "absent"]
NoProjects == [n \in AllNames |-> NoDir]

\* the file is history.jsonl and also the log s1.jsonl of the project's
\* stored directory
InitRewrite ==
    \E p \in TrackedPaths : \E file \in FilesNear(p) :
        /\ history = file
        /\ projects = [NoProjects EXCEPT
                          ![encode_path(p)] =
                              Dir(NoFile, [NoLogs EXCEPT !["s1.jsonl"] = file])]
        /\ realDirs = NoRealDirs
        /\ backups = NoBackups
        /\ clock = 1
        /\ pre = [k |-> "file", path |-> p, file |-> file]
        /\ Idle

RewriteArgs(target, dry_run) ==
    [op |-> "rewrite", target |-> target, old_path |-> pre.path,
     new_path |-> NewPath, dry_run |-> dry_run]

\* update_history(history_path, old_path, new_path, dry_run)
RewriteHistory ==
    /\ pc = "idle"
    /\ \E dry_run \in BOOLEAN, fail \in {"none", "write"} :
         \E u \in {update_history(history, pre.path, NewPath, dry_run, fail)} :
            /\ args' = RewriteArgs("history", dry_run)
            /\ history' = u.file
            /\ res' = [res EXCEPT !.dry_run = dry_run,
                                  !.history_lines_changed = u.count]
            /\ pc' = IF u.raised THEN "raised" ELSE "done"
            /\ err' = IF u.raised THEN "OSError" ELSE err
    /\ UNCHANGED <<realDirs, projects, backups, clock, found, working, moved,
                   note, restored, pre>>

\* update_jsonl_files(project_dir, old_path, new_path, dry_run)
RewriteLogs ==
    /\ pc = "idle"
    /\ \E dry_run \in BOOLEAN, fail_at \in {"", "s1.jsonl"} :
         \E u \in {update_jsonl_files(projects[encode_path(pre.path)], pre.path,
                                      NewPath, dry_run, fail_at, {})} :
            /\ args' = RewriteArgs("logs", dry_run)
            /\ projects' = [projects EXCEPT ![encode_path(pre.path)].logs = u.logs]
            /\ res' = [res EXCEPT !.dry_run = dry_run,
                                  !.jsonl_files_updated = u.files_updated,
                                  !.jsonl_lines_changed = u.total_lines_changed]
            /\ pc' = IF u.raised THEN "raised" ELSE "done"
            /\ err' = IF u.raised THEN "OSError" ELSE err
    /\ UNCHANGED <<realDirs, history, backups, clock, found, working, moved,
                   note, restored, pre>>

NextRewrite ==
    \/ RewriteHistory
    \/ RewriteLogs

SpecRewrite == InitRewrite /\ [][NextRewrite]_vars

-----------------------------------------------------------------------------
(* Claims about the rewrite of a file (checked under SpecRewrite)          *)

\* the file a rewrite was run on, as it is afterwards
Rewritten ==
    IF args.target = "history" THEN history
    ELSE projects[encode_path(pre.path)].logs["s1.jsonl"]

\* a rewrite, not a dry run, has returned
RewriteDone == pc = "done" /\ args.op = "rewrite" /\ ~args.dry_run

\* C6: in every line that parses as a structured record, a string value at
\* any depth is replaced if and only if it equals the old path or begins
\* with the old path followed by "/", by the new path followed by the
\* unchanged remainder, and every other value of the record is unchanged.
C6_RecordValuesReplacedIffPrefix ==
    RewriteDone => RecordsMoved(pre.file, Rewritten, args.old_path, args.new_path)

\* the characters that end a path in a line of text
PathEnds == {"/", QUOTE, " ", ",", "]", "}"}

\* text holds the path old, or a path below it: an occurrence of old that
\* is followed by the separator or by the end of the path
MentionsPath(text, old) ==
    \E i \in 1..Len(text) :
        /\ MatchAt(text, old, i)
        /\ \/ i + Len(old) > Len(text)
           \/ text[i + Len(old)] \in PathEnds

\* C7: in every rewrite, of lines that parse as records and of lines that
\* do not, a path is replaced only if it is the old path or begins with the
\* old path followed by the separator: a line whose only mentions of the
\* old path are as the string prefix of an unrelated path is not altered.
C7_OnlyPrefixMatchesAltered ==
    RewriteDone =>
        /\ Len(Rewritten.lines) = Len(pre.file.lines)
        /\ \A i \in 1..Len(pre.file.lines) :
              ~MentionsPath(pre.file.lines[i], args.old_path) =>
                  Rewritten.lines[i] = pre.file.lines[i]

-----------------------------------------------------------------------------
(* merge_sessions_index (updaters.py), on the indices explored             *)

\* the longest entry list explored
MaxEntries == 2

SessionIds == {"s1", "s2", "s3"}

\* sequences of at most MaxEntries session ids, none twice
IdLists ==
    {ids \in UNION {[1..n -> SessionIds] : n \in 0..MaxEntries} :
        \A i, j \in 1..Len(ids) : i # j => ids[i] # ids[j]}

MergedPath == <<"/", "a">>
SrcName == encode_path(MergedPath)
DstName == encode_path(NewPath)

\* the index of the stored directory being merged away, and of the one
\* merged into, with the given sessions
SrcIndex(ids) ==
    Index("orig", MergedPath,
          [i \in 1..Len(ids) |->
             Entry(ids[i], IF ids[i] = "s3" THEN OtherPath ELSE MergedPath,
                   FullPath(SrcName, ids[i]), "m")])
DstIndex(originalPath, ids) ==
    Index("orig", originalPath,
          [i \in 1..Len(ids) |->
             Entry(ids[i], NewPath, FullPath(DstName, ids[i]), "n")])

SrcIndices == {SrcIndex(ids) : ids \in IdLists} \cup {BadIndex, NoFile}
DstIndices ==
    {DstIndex(o, ids) : o \in {NewPath, MergedPath}, ids \in IdLists}
        \cup {BadIndex, NoFile}

InitMerge ==
    \E src \in SrcIndices, dst \in DstIndices :
        /\ projects = [NoProjects EXCEPT ![SrcName] = Dir(src, NoLogs),
                                         ![DstName] = Dir(dst, NoLogs)]
        /\ history = NoFile
        /\ realDirs = NoRealDirs
        /\ backups = NoBackups
        /\ clock = 1
        /\ pre = [k |-> "indices", path |-> MergedPath, src |-> src, dst |-> dst]
        /\ Idle

\* merge_sessions_index(dst_index, src_index, old_path, new_path,
\* new_encoded, dry_run)
MergeIndex ==
    /\ pc = "idle"
    /\ \E dry_run \in BOOLEAN, fail \in IndexFailures :
         \E m \in {merge_sessions_index(projects[DstName].idx, projects[SrcName].idx,
                                        MergedPath, NewPath, DstName, dry_run, fail)} :
            /\ args' = [op |-> "merge_index", old_path |-> MergedPath,
                        new_path |-> NewPath, dry_run |-> dry_run]
            /\ projects' = [projects EXCEPT ![DstName].idx = m.dst]
            /\ res' = [res EXCEPT !.dry_run = dry_run,
                                  !.sessions_merged = m.merged,
                                  !.warned = m.warned]
            /\ pc' = IF m.raised THEN "raised" ELSE "done"
            /\ err' = IF m.raised THEN "OSError" ELSE err
    /\ UNCHANGED <<realDirs, history, backups, clock, found, working, moved,
                   note, restored, pre>>

NextMerge == MergeIndex

SpecMerge == InitMerge /\ [][NextMerge]_vars

-----------------------------------------------------------------------------
(* Claims about merge_sessions_index (checked under SpecMerge)             *)

\* the session ids of an entry list
IdsOf(entries) == {entries[i].sessionId : i \in 1..Len(entries)}

\* the entries of the source that the claims expect appended, in source
\* order, before their path fields are rewritten
FreshEntries ==
    LET Fresh(e) == e.sessionId \notin IdsOf(pre.dst.entries)
    IN  SelectSeq(pre.src.entries, Fresh)

\* the ids of the source's entries that are already in the destination
DuplicateIds ==
    LET Dup(e) == e.sessionId \in IdsOf(pre.dst.entries)
        dups == SelectSeq(pre.src.entries, Dup)
    IN  [i \in 1..Len(dups) |-> dups[i].sessionId]

\* an appended entry with its path fields rewritten
PathsRewritten(e) ==
    [e EXCEPT !.projectPath = IF @ = MergedPath THEN NewPath ELSE @,
              !.fullPath = ReplaceFirst(@, SrcName, DstName)]

\* what the claim states of the destination after a merge
MergeOutcome ==
    /\ projects[DstName].idx.k = "idx"
    /\ projects[DstName].idx.entries =
          pre.dst.entries \o
          [i \in 1..Len(FreshEntries) |-> PathsRewritten(FreshEntries[i])]
    /\ \A id \in IdsOf(pre.src.entries) \cap IdsOf(pre.dst.entries) :
          /\ \E i \in 1..Len(res.warned) : res.warned[i] = id
          /\ Cardinality({i \in 1..Len(projects[DstName].idx.entries) :
                             projects[DstName].idx.entries[i].sessionId = id}) = 1
    /\ res.warned = DuplicateIds
    /\ res.sessions_merged = Len(FreshEntries)

\* merge_sessions_index has returned, both indices having been readable
MergeReturned ==
    /\ pc = "done"
    /\ args.op = "merge_index"
    /\ pre.src.k = "idx"
    /\ pre.dst.k = "idx"

\* C10 as stated: after mergeIndex the destination's entry list is its
\* original entries in order, followed by the source entries whose
\* sessionId was not in the destination, in source order and with their
\* path fields rewritten; a session in both yields one entry, the
\* destination's, and a warning naming it; the returned count is the number
\* of entries appended.
C10_MergeAppendsFreshEntries ==
    MergeReturned => MergeOutcome

\* C10, amended: the same, after a mergeIndex that is not a dry run.
C10_MergeAppendsFreshEntriesUnlessDryRun ==
    (MergeReturned /\ ~args.dry_run) => MergeOutcome

\* a merge, not a dry run, that appended an entry and skipped a duplicate
C10_Witness ==
    /\ MergeReturned
    /\ ~args.dry_run
    /\ res.sessions_merged > 0
    /\ Len(res.warned) > 0
    /\ Len(pre.dst.entries) > 0

-----------------------------------------------------------------------------
(* create_backup and restore_backup (backup.py), with the live files being *)
(* changed in between                                                      *)

BackedUpPath == <<"/", "a">>
\* the stored directory backed up, and the merge target
LiveName == encode_path(BackedUpPath)
ExtraName == encode_path(NewPath)

\* what the stored directory and the merge target may hold
LiveDirs == {NoDir, ProjectDir(BackedUpPath, LiveName), TargetDir}
ExtraDirs == {NoDir, TargetDir}
\* what history.jsonl may hold
Histories == {NoFile, HistoryOf(BackedUpPath), File(<< <<"x">> >>)}

InitBackup ==
    \E live \in LiveDirs, extra \in ExtraDirs, hist \in Histories :
        /\ projects = [NoProjects EXCEPT ![LiveName] = live, ![ExtraName] = extra]
        /\ history = hist
        /\ realDirs = NoRealDirs
        /\ backups = NoBackups
        /\ clock = 1
        /\ pre = [k |-> "none", path |-> BackedUpPath]
        /\ Idle

\* create_backup(project_dir, history_path, backup_base, extra_dir)
CreateBackup ==
    /\ pc = "idle"
    /\ \E extra_dir \in {NoName, ExtraName}, fail \in BackupFailures :
         \E b \in {create_backup(backups[clock], projects, history, LiveName,
                                 extra_dir, fail)} :
            /\ backups' = [backups EXCEPT ![clock] = b.backup]
            /\ args' = [op |-> "backup", project_dir |-> LiveName,
                        extra_dir |-> extra_dir]
            /\ res' = [res EXCEPT !.backup_path = IF b.raised THEN 0 ELSE clock]
            /\ pc' = IF b.raised THEN "raised" ELSE "backed"
            /\ err' = IF b.raised THEN "OSError" ELSE err
    /\ pre' = Snapshot
    /\ UNCHANGED <<realDirs, projects, history, clock, found, working, moved,
                   note, restored>>

\* the live stored directory or the merge target is changed, deleted or
\* created after the backup
ChangeDir ==
    /\ pc = "backed"
    /\ \/ \E d \in LiveDirs : projects' = [projects EXCEPT ![LiveName] = d]
       \/ \E d \in ExtraDirs : projects' = [projects EXCEPT ![ExtraName] = d]
    /\ UNCHANGED <<realDirs, history, backups, clock, pc, args, res, found,
                   working, moved, err, note, restored, pre>>

\* history.jsonl is changed, deleted or created after the backup
ChangeHistory ==
    /\ pc = "backed"
    /\ \E h \in Histories : history' = h
    /\ UNCHANGED <<realDirs, projects, backups, clock, pc, args, res, found,
                   working, moved, err, note, restored, pre>>

\* a restore in which at most one step fails
SingleFailures ==
    {f \in RestoreFailures :
        Cardinality({s \in {"project", "merge_target", "history"} :
                        f[s] # "none"}) <= 1}

\* what a copytree failing with `fail` may leave of dir at its destination
LeftBy(fail, dir) ==
    IF fail = "partial" /\ dir # NoDir THEN PartialCopies(dir) ELSE {NoDir}

\* restore_backup(backup_dir)
RestoreBackup ==
    /\ pc = "backed"
    /\ \E fail \in SingleFailures :
         \E pp \in LeftBy(fail.project, backups[res.backup_path].project_dir),
            pm \in LeftBy(fail.merge_target, backups[res.backup_path].merge_target_dir) :
            \E r \in {restore_backup(backups[res.backup_path], projects, history,
                                     fail, pp, pm)} :
                /\ projects' = r.projects
                /\ history' = r.history
                /\ restored' = IF r.ok THEN "ok" ELSE "failed"
                /\ args' = [op |-> "restore", project_dir |-> args.project_dir,
                            extra_dir |-> args.extra_dir, fail |-> fail,
                            live |-> projects]
    /\ pc' = "restored"
    /\ UNCHANGED <<realDirs, backups, clock, res, found, working, moved, err,
                   note, pre>>

\* restore_backup(backup_dir) on the directory a failed create_backup left
\* behind: it has no manifest
RestoreUnfinishedBackup ==
    /\ pc = "raised"
    /\ args.op = "backup"
    /\ backups[clock] # NoBackup
    /\ \E fail \in SingleFailures :
         \E r \in {restore_backup(backups[clock], projects, history, fail,
                                  NoDir, NoDir)} :
            /\ projects' = r.projects
            /\ history' = r.history
            /\ restored' = IF r.ok THEN "ok" ELSE "failed"
            /\ args' = [op |-> "restore", project_dir |-> args.project_dir,
                        extra_dir |-> args.extra_dir, fail |-> fail,
                        live |-> projects, live_history |-> history]
    /\ res' = [res EXCEPT !.backup_path = clock]
    /\ pc' = "restored"
    /\ UNCHANGED <<realDirs, backups, clock, found, working, moved, err, note,
                   pre>>

NextBackup ==
    \/ CreateBackup
    \/ ChangeDir
    \/ ChangeHistory
    \/ RestoreBackup
    \/ RestoreUnfinishedBackup

SpecBackup == InitBackup /\ [][NextBackup]_vars

-----------------------------------------------------------------------------
(* Claims about backup and restore (checked under SpecBackup)              *)

\* restore_backup, no step of it failing, has returned True
RestoreSucceeded ==
    /\ pc = "restored"
    /\ args.fail = NoRestoreFailure
    /\ restored = "ok"

\* C4: whatever was there at backup time (stored directory present or
\* absent, history present or absent, merge target supplied or not) and
\* whatever was changed, deleted or created since, a restore reproduces the
\* state of backup time: each backed-up location holds exactly the files it
\* held then, and no others.
C4_RestoreReproducesBackedUpState ==
    RestoreSucceeded =>
        /\ projects[args.project_dir] = pre.projects[args.project_dir]
        /\ args.extra_dir # NoName =>
              projects[args.extra_dir] = pre.projects[args.extra_dir]
        /\ history = pre.history
        /\ \A n \in {args.project_dir, args.extra_dir} \ {NoName} :
              projects[AsideName(n)] = NoDir

\* the copy of the restore of the directory kept in the backup as `kept`
\* failed, its target `name` being a live directory
CopyFailed(step, kept, name) ==
    /\ pc = "restored"
    /\ args.fail[step] \in {"mkdir", "partial"}
    /\ kept # NoDir
    /\ name # NoName
    /\ args.live[name] # NoDir

\* C5: when the deep copy of a directory restore fails, before creating
\* the target or after having copied part of the backup into it, restore
\* returns false and the live target directory is at its path with all its
\* prior contents, unmodified.
C5_FailedCopyLeavesTargetIntact ==
    /\ CopyFailed("project", backups[res.backup_path].project_dir, args.project_dir) =>
          /\ restored = "failed"
          /\ projects[args.project_dir] = args.live[args.project_dir]
    /\ CopyFailed("merge_target", backups[res.backup_path].merge_target_dir,
                  args.extra_dir) =>
          /\ restored = "failed"
          /\ projects[args.extra_dir] = args.live[args.extra_dir]

\* the backup directory restore_backup was run on
Restoring == backups[res.backup_path]

\* the steps restore_backup attempts: the items present in the backup
Attempted ==
    {s \in {"project", "merge_target", "history"} :
        CASE s = "project" -> Restoring.project_dir # NoDir
          [] s = "merge_target" ->
                /\ Restoring.merge_target_dir # NoDir
                /\ Restoring.manifest.merge_target_dir # NoName
          [] OTHER -> Restoring.history # NoFile}

\* the step has put its item back: the directory is at its target with the
\* backup's content and nothing is left aside, the history file holds the
\* backup's content
PutBack(s) ==
    CASE s = "project" ->
            /\ projects[Restoring.manifest.project_dir] = Restoring.project_dir
            /\ projects[AsideName(Restoring.manifest.project_dir)] = NoDir
      [] s = "merge_target" ->
            /\ projects[Restoring.manifest.merge_target_dir] = Restoring.merge_target_dir
            /\ projects[AsideName(Restoring.manifest.merge_target_dir)] = NoDir
      [] OTHER -> history = Restoring.history

-----------------------------------------------------------------------------
(* encode_path (encoder.py), on the paths explored                         *)

\* the longest path explored, in characters
MaxPathLen == 4

\* the characters of the paths explored: the separator, the two characters
\* the encoding could confuse with it, and a letter
PathChars == {"/", "-", ".", "a"}

\* the absolute paths of at most MaxPathLen characters
AbsolutePaths ==
    {p \in UNION {[1..n -> PathChars] : n \in 1..MaxPathLen} : p[1] = "/"}

InitEncode ==
    \E p \in AbsolutePaths :
        /\ realDirs = NoRealDirs
        /\ projects = NoProjects
        /\ history = NoFile
        /\ backups = NoBackups
        /\ clock = 1
        /\ pre = [k |-> "path", path |-> p]
        /\ Idle

\* encode_path(abs_path), called once and called again
Encode ==
    /\ pc \in {"idle", "done"}
    /\ args' = [op |-> "encode", abs_path |-> pre.path,
                again |-> pc = "done",
                before |-> IF pc = "done" THEN res.encoded ELSE <<>>]
    /\ res' = [encoded |-> encode_path(pre.path)]
    /\ pc' = "done"
    /\ UNCHANGED <<realDirs, projects, history, backups, clock, found, working,
                   moved, err, note, restored, pre>>

NextEncode == Encode

SpecEncode == InitEncode /\ [][NextEncode]_vars

-----------------------------------------------------------------------------
(* Claims about encode_path (checked under SpecEncode)                     *)

EncodeReturned == pc = "done" /\ args.op = "encode"

\* C14: encode is a pure total function: for every absolute path it returns
\* the path with every "/" replaced by "-" and every other character
\* ("." and "-" included) unchanged, so the result is as long as the input
\* and encode("/") = "-"; it changes nothing on disk and a second call
\* returns what the first returned.
C14_EncodeReplacesSeparatorsOnly ==
    EncodeReturned =>
        /\ Len(res.encoded) = Len(args.abs_path)
        /\ \A i \in 1..Len(args.abs_path) :
              res.encoded[i] = IF args.abs_path[i] = "/" THEN "-"
                               ELSE args.abs_path[i]
        /\ (args.abs_path = <<"/">> => res.encoded = <<"-">>)
        /\ (args.again => res.encoded = args.before)
        /\ realDirs = NoRealDirs /\ projects = NoProjects
        /\ history = NoFile /\ backups = NoBackups

\* the encoding, taken twice, of a path with two separators, a hyphen and
\* a dot
C14_Witness ==
    /\ EncodeReturned
    /\ args.again
    /\ args.abs_path = <<"/", "-", "/", ".">>
    /\ res.encoded = <<"-", "-", "-", ".">>

-----------------------------------------------------------------------------
(* find_project_dir (scanner.py), on the projects roots explored           *)

\* the paths asked for: a plain absolute path, and the working directory
ClaimedPaths == {<<"/", "a">>, Cwd}

\* what an index may hold as originalPath, or a first entry as projectPath,
\* next to the path p: p, p written with a trailing separator, another
\* path, nothing (the key is missing) and null
PathFieldsNear(p) == {p, p \o <<"/">>, OtherPath, <<>>, Null}

\* the index files explored: none, one that is no JSON, one that is not
\* UTF-8, one that is a list, and indices with no entry or one entry
IndicesNear(p) ==
    {NoFile, BadIndex, UndecodableIndex, ListIndex}
    \cup {Index("orig", o, <<>>) : o \in PathFieldsNear(p)}
    \cup {Index("orig", o, <<Entry("s1", pp, FullPath(DriftName, "s1"), "m1")>>) :
            o \in PathFieldsNear(p), pp \in PathFieldsNear(p)}

\* the projects roots explored: a directory under the encoded name of p or
\* not, and a directory under another name or not; the root with no
\* directory also stands for the missing root
RootsNear(p) ==
    {[n \in AllNames \cup {encode_path(p)} |->
        CASE n = encode_path(p) -> atEncoded
          [] n = DriftName -> atDrift
          [] OTHER -> NoDir] :
        atEncoded \in {NoDir} \cup {Dir(i, NoLogs) : i \in {BadIndex,
                                      Index("orig", OtherPath, <<>>)}},
        atDrift \in {NoDir} \cup {Dir(i, NoLogs) : i \in IndicesNear(p)}}

InitFind ==
    \E p \in ClaimedPaths : \E root \in RootsNear(p) :
        /\ projects = root
        /\ realDirs = NoRealDirs
        /\ history = NoFile
        /\ backups = NoBackups
        /\ clock = 1
        /\ pre = [k |-> "root", path |-> p, projects |-> root]
        /\ Idle

\* find_project_dir(claude_dir, project_path)
FindProjectDir ==
    /\ pc = "idle"
    /\ \E r \in find_project_dir(projects, pre.path) :
         /\ args' = [op |-> "find", project_path |-> pre.path]
         /\ found' = IF r \in ScanErrors THEN NoName ELSE r
         /\ pc' = IF r \in ScanErrors THEN "raised" ELSE "done"
         /\ err' = IF r \in ScanErrors THEN r[1] ELSE err
    /\ UNCHANGED <<realDirs, projects, history, backups, clock, res, working,
                   moved, note, restored, pre>>

NextFind == FindProjectDir

SpecFind == InitFind /\ [][NextFind]_vars

-----------------------------------------------------------------------------
(* Claims about find_project_dir (checked under SpecFind)                  *)

FindEnded == pc \in {"done", "raised"} /\ args.op = "find"

\* the index file idx has an originalPath, or a first entry projectPath,
\* that resolves to the absolute path `normalized`
IndexRefersTo(idx, normalized) ==
    /\ idx.k = "idx"
    /\ \/ /\ idx.originalPath \notin {<<>>, Null}
          /\ Resolve(idx.originalPath) = normalized
       \/ /\ Len(idx.entries) > 0
          /\ idx.entries[1].projectPath \notin {<<>>, Null}
          /\ Resolve(idx.entries[1].projectPath) = normalized

\* the directories of the root whose index refers to the path asked for
Referring ==
    {n \in DOMAIN projects :
        projects[n] # NoDir
        /\ IndexRefersTo(projects[n].idx, Resolve(args.project_path))}

\* C15: findProjectDir returns the directory named encode(claimedPath) if it
\* exists, whatever any index says; otherwise a directory whose index has an
\* originalPath, or a first entry projectPath, that resolves to the same
\* absolute path as claimedPath; and none if there is no such directory (or
\* no projects root); no error is raised and the root is left as it was.
C15_FindResolutionOrder ==
    FindEnded =>
        /\ pc = "done" /\ err = "none"
        /\ projects = pre.projects
        /\ IF Exists(projects, encode_path(args.project_path))
           THEN found = encode_path(args.project_path)
           ELSE IF Referring # {} THEN found \in Referring
           ELSE found = NoName

\* the call reached the fallback scan: the directory named by the encoding
\* of the path asked for does not exist
ScanEnded ==
    FindEnded /\ ~Exists(pre.projects, encode_path(args.project_path))

\* an index file the scan can read as an object whose path fields, where
\* present, are strings; or no index file; or one that is no JSON
WellTyped(idx) ==
    \/ idx \in {NoFile, BadIndex}
    \/ /\ idx.k = "idx"
       /\ idx.originalPath # Null
       /\ Len(idx.entries) > 0 => idx.entries[1].projectPath # Null

\* C29: the fallback scan of findProjectDir never fails because of what an
\* index file holds: an index that is unreadable, is not valid data, is not
\* an object at the top level, or whose originalPath or first entry
\* projectPath is not a string, is skipped and the scan goes on; the call
\* ends without an error.
C29_ScanSkipsMalformedIndex ==
    ScanEnded => (pc = "done" /\ err = "none")

\* the scan raises nothing when every index of the root is well typed
ScanOfWellTypedIndices ==
    (ScanEnded /\ \A n \in DOMAIN pre.projects :
                      pre.projects[n] # NoDir => WellTyped(pre.projects[n].idx))
        => (pc = "done" /\ err = "none")

\* a scan over a root that holds an index that is no JSON and ended
ScanSkippedBadIndex ==
    /\ ScanEnded /\ pc = "done"
    /\ \E n \in DOMAIN pre.projects :
          pre.projects[n] # NoDir /\ pre.projects[n].idx = BadIndex

-----------------------------------------------------------------------------
(* update_jsonl_files (updaters.py), on the stored directories explored    *)

\* the longest log file explored, in lines
MaxLogLines == 2

\* the lines of the log files explored: a record of the project, a record
\* of a sibling project, and a line that is no JSON naming a path below
LogLinesNear(p) ==
    {Line(Cwd1(p)), Line(Cwd1(Sibling(p))), <<"c", "d", " ">> \o Below(p)}

LogFilesNear(p) ==
    {File(lines) : lines \in UNION {[1..n -> LogLinesNear(p)] : n \in 1..MaxLogLines}}

\* the stored directories explored: a session log, absent or any of the
\* files; a sub-agent log, absent or a file of one line; and a second
\* session log, absent or not
LogDirsNear(p) ==
    {Dir(NoFile, [f \in LogNames |->
                    CASE f = "s1.jsonl" -> a
                      [] f = "s1/subagents/agent.jsonl" -> b
                      [] OTHER -> c]) :
        a \in {NoFile} \cup LogFilesNear(p),
        b \in {NoFile} \cup {File(<<l>>) : l \in LogLinesNear(p)},
        c \in {NoFile, File(<<Line(Cwd1(Below(p)))>>)}}

InitLogs ==
    \E p \in TrackedPaths : \E dir \in LogDirsNear(p) :
        /\ projects = [NoProjects EXCEPT ![encode_path(p)] = dir]
        /\ history = NoFile
        /\ realDirs = NoRealDirs
        /\ backups = NoBackups
        /\ clock = 1
        /\ pre = [k |-> "logs", path |-> p, dir |-> dir]
        /\ Idle

\* the arguments of an update_jsonl_files call; `dry` holds the pair a dry
\* run returned just before, if there was one
LogsArgs(dry_run, dry) ==
    [op |-> "logs", old_path |-> pre.path, new_path |-> NewPath,
     dry_run |-> dry_run, dry |-> dry]

\* update_jsonl_files(project_dir, old_path, new_path, dry_run), called on
\* the directory as it is (pc = "idle"), or for real after a dry run
\* (pc = "done")
RewriteLogsDir ==
    /\ \/ pc = "idle"
       \/ pc = "done" /\ args.dry_run
    /\ \E dry_run \in BOOLEAN, fail_at \in LogNames \cup {""}, done \in SUBSET LogNames :
         \E u \in {update_jsonl_files(projects[encode_path(pre.path)], pre.path,
                                      NewPath, dry_run, fail_at, done)} :
            /\ pc = "done" => ~dry_run
            /\ args' = LogsArgs(dry_run,
                                IF pc = "done"
                                THEN <<res.jsonl_files_updated, res.jsonl_lines_changed>>
                                ELSE <<>>)
            /\ projects' = [projects EXCEPT ![encode_path(pre.path)].logs = u.logs]
            /\ res' = IF u.raised THEN res
                      ELSE [res EXCEPT !.dry_run = dry_run,
                                       !.jsonl_files_updated = u.files_updated,
                                       !.jsonl_lines_changed = u.total_lines_changed]
            /\ pc' = IF u.raised THEN "raised" ELSE "done"
            /\ err' = IF u.raised THEN "OSError" ELSE err
    /\ UNCHANGED <<realDirs, history, backups, clock, found, working, moved,
                   note, restored, pre>>

NextLogs == RewriteLogsDir

SpecLogs == InitLogs /\ [][NextLogs]_vars

-----------------------------------------------------------------------------
(* Claims about update_jsonl_files (checked under SpecLogs)                *)

\* a call that was not a dry run has returned
LogsRewritten == pc = "done" /\ args.op = "logs" /\ ~args.dry_run

\* the log files of the directory the call was run on
LogsBefore == pre.dir.logs
LogsAfter == projects[encode_path(pre.path)].logs

\* the number of lines of log file f that the call changed
LinesChanged(f) ==
    Cardinality({i \in 1..Len(LogsBefore[f].lines) :
                    LogsAfter[f].lines[i] # LogsBefore[f].lines[i]})

\* C16: update_jsonl_files returns as files changed the number of log files
\* with at least one changed line and as line total the sum of the files'
\* changed-line counts, no file's count exceeds its number of lines (no
\* line is added or removed), and a dry run returns the same pair as the
\* real run from the same directory.
C16_LineCounts ==
    LogsRewritten =>
        LET files == JsonlFiles(pre.dir)
        IN  /\ \A f \in files :
                  /\ LogsAfter[f] # NoFile
                  /\ Len(LogsAfter[f].lines) = Len(LogsBefore[f].lines)
            /\ res.jsonl_files_updated =
                   Cardinality({f \in files : LinesChanged(f) > 0})
            /\ res.jsonl_lines_changed =
                   SumOver(files, [f \in files |-> LinesChanged(f)])
            /\ args.dry # <<>> =>
                   args.dry = <<res.jsonl_files_updated, res.jsonl_lines_changed>>

\* a real run after a dry run, over three log files of which one has no
\* line to change and the others have three between them
C16_Witness ==
    /\ LogsRewritten
    /\ args.dry # <<>>
    /\ Cardinality(JsonlFiles(pre.dir)) = 3
    /\ res.jsonl_files_updated = 2
    /\ res.jsonl_lines_changed = 3

-----------------------------------------------------------------------------
(* move and remap, run for real after a dry run from the same disk         *)

\* the disks on which a dry run is followed by the real run: the project at
\* the plain path with its real directory, history present
InitDryRun ==
    \E disk \in {d \in Disks : /\ d.path = <<"/", "a">>
                               /\ d.realDirs[d.path] = "files"
                               /\ d.history # NoFile} :
        /\ realDirs = disk.realDirs
        /\ projects = disk.projects
        /\ history = disk.history
        /\ backups = NoBackups
        /\ clock = 1
        /\ pre = [k |-> "none", path |-> disk.path]
        /\ Idle

\* the same call without dry_run, once the dry run has returned; `dry`
\* keeps the MoveResult the dry run returned
CallForReal ==
    /\ pc = "done"
    /\ args.dry_run
    /\ args' = [op |-> args.op, old_path |-> args.old_path,
                new_path |-> args.new_path, dry_run |-> FALSE,
                no_backup |-> args.no_backup, merge |-> args.merge,
                dry |-> res]
    /\ pre' = Snapshot
    /\ pc' = "validate"
    /\ res' = MoveResult
    /\ found' = NoName /\ working' = NoName /\ moved' = FALSE
    /\ UNCHANGED <<realDirs, projects, history, backups, clock, err, note,
                   restored>>

NextDryRun ==
    \/ Next
    \/ CallForReal

SpecDryRun == InitDryRun /\ [][NextDryRun]_vars

-----------------------------------------------------------------------------
(* Claims about a dry run and the real run (checked under SpecDryRun)      *)

\* the fields of a MoveResult that report what changed
Reported(r) ==
    [project_dir_renamed |-> r.project_dir_renamed,
     sessions_merged |-> r.sessions_merged,
     sessions_index_updated |-> r.sessions_index_updated,
     jsonl_files_updated |-> r.jsonl_files_updated,
     jsonl_lines_changed |-> r.jsonl_lines_changed,
     history_lines_changed |-> r.history_lines_changed]

\* the real run that followed a dry run has returned its result
RealRunReturned ==
    /\ pc = "done"
    /\ ~args.dry_run
    /\ "dry" \in DOMAIN args

\* C17: the result of a dry-run move or remap equals, field for field
\* except the backup location, the result the same operation returns when
\* run for real from the same state.
C17_DryRunReportsRealResult ==
    RealRunReturned => Reported(args.dry) = Reported(res)

-----------------------------------------------------------------------------
(* replace_in_file (updaters.py), statement by statement                   *)

\* a record of the project at p whose summary was cut in the middle of a
\* character outside the basic plane: {"cwd": "<p>", "s": "\ud83d"}
SurrogateLine(p) ==
    <<"{", QUOTE, "c", "w", "d", QUOTE, ":", " ", QUOTE>> \o p
        \o <<QUOTE, ",", " ", QUOTE, "s", QUOTE, ":", " ", QUOTE,
             BACKSLASH, "u", SurrogateHex, QUOTE, "}">>

\* whether text.encode("utf-8") raises UnicodeEncodeError
Unencodable(text) == \E i \in 1..Len(text) : text[i] = Surrogate

\* the files rewritten one statement at a time
AtomicFiles(p) ==
    {File(lines) :
        lines \in UNION {[1..n -> {Line(Cwd1(p)), Line(Cwd1(Sibling(p))),
                                   <<"c", "d", " ">> \o Below(p),
                                   SurrogateLine(p)}] : n \in 1..MaxLines}}

\* the directory of the file: the file itself (as the log s1.jsonl) and the
\* temporary file mkstemp creates in it, if any
AtomicDir(file, tmp) ==
    [k |-> "dir", idx |-> NoFile, logs |-> [NoLogs EXCEPT !["s1.jsonl"] = file],
     tmp |-> tmp]

InitAtomic ==
    \E p \in {<<"/", "a">>} : \E file \in AtomicFiles(p) :
        /\ projects = [NoProjects EXCEPT ![encode_path(p)] = AtomicDir(file, NoFile)]
        /\ history = NoFile
        /\ realDirs = NoRealDirs
        /\ backups = NoBackups
        /\ clock = 1
        /\ pre = [k |-> "file", path |-> p, file |-> file]
        /\ Idle

\* the file at file_path and the temporary file next to it
TheFile == projects[encode_path(pre.path)].logs["s1.jsonl"]
TheTemp == projects[encode_path(pre.path)].tmp

\* replace_in_file 220-244: read the lines and compute new_lines; open()
\* failing, the function returns 0
ReadLines ==
    /\ pc = "idle"
    /\ \E dry_run \in BOOLEAN, read_fails \in BOOLEAN :
         LET out == [i \in 1..Len(TheFile.lines) |->
                        RewriteLine(TheFile.lines[i], pre.path, NewPath)]
             n == Cardinality({i \in 1..Len(TheFile.lines) : out[i].changed})
         IN  /\ args' = [op |-> "replace", old |-> pre.path, new |-> NewPath,
                         dry_run |-> dry_run]
             /\ IF read_fails
                THEN /\ res' = [lines_changed |-> 0, new_lines |-> <<>>]
                     /\ pc' = "done"
                ELSE /\ res' = [lines_changed |-> n,
                                new_lines |-> [i \in 1..Len(TheFile.lines) |->
                                                 out[i].line]]
                     /\ pc' = "computed"
    /\ UNCHANGED <<realDirs, projects, history, backups, clock, found, working,
                   moved, err, note, restored, pre>>

\* replace_in_file 246-249: tempfile.mkstemp in the file's directory, only
\* if lines changed and this is no dry run; mkstemp raising, no file exists
MakeTemp ==
    /\ pc = "computed"
    /\ IF res.lines_changed > 0 /\ ~args.dry_run
       THEN \E fails \in BOOLEAN :
              IF fails
              THEN /\ pc' = "raised" /\ err' = "OSError"
                   /\ UNCHANGED projects
              ELSE /\ projects' = [projects EXCEPT
                                      ![encode_path(pre.path)].tmp = File(<<>>)]
                   /\ pc' = "tmp_open"
                   /\ UNCHANGED err
       ELSE /\ pc' = "done"
            /\ UNCHANGED <<projects, err>>
    /\ UNCHANGED <<realDirs, history, backups, clock, args, res, found, working,
                   moved, note, restored, pre>>

\* replace_in_file 251-252: f.writelines(new_lines) and close.  A line that
\* cannot be encoded raises UnicodeEncodeError, which is no OSError: the
\* except clause does not run.  A failing write raises OSError.  Either
\* way the lines before the failure may have reached the file.
WriteTemp ==
    /\ pc = "tmp_open"
    /\ \E fails \in BOOLEAN, k \in 0..Len(res.new_lines) :
         LET bad == {i \in 1..Len(res.new_lines) : Unencodable(res.new_lines[i])}
         IN  IF bad # {}
             THEN /\ \A i \in 1..k : i \notin bad
                  /\ projects' = [projects EXCEPT ![encode_path(pre.path)].tmp =
                                     File(SubSeq(res.new_lines, 1, k))]
                  /\ pc' = "raised" /\ err' = "UnicodeEncodeError"
             ELSE IF fails
             THEN /\ k < Len(res.new_lines)
                  /\ projects' = [projects EXCEPT ![encode_path(pre.path)].tmp =
                                     File(SubSeq(res.new_lines, 1, k))]
                  /\ pc' = "unlink" /\ err' = "OSError"
             ELSE /\ k = Len(res.new_lines)
                  /\ projects' = [projects EXCEPT ![encode_path(pre.path)].tmp =
                                     File(res.new_lines)]
                  /\ pc' = "tmp_written" /\ UNCHANGED err
    /\ UNCHANGED <<realDirs, history, backups, clock, args, res, found, working,
                   moved, note, restored, pre>>

\* replace_in_file 253: os.replace(tmp_path, file_path), then return
ReplaceFile ==
    /\ pc = "tmp_written"
    /\ \E fails \in BOOLEAN :
         IF fails
         THEN /\ pc' = "unlink" /\ err' = "OSError"
              /\ UNCHANGED projects
         ELSE /\ projects' = [projects EXCEPT
                                 ![encode_path(pre.path)].logs["s1.jsonl"] = TheTemp,
                                 ![encode_path(pre.path)].tmp = NoFile]
              /\ pc' = "done"
              /\ UNCHANGED err
    /\ UNCHANGED <<realDirs, history, backups, clock, args, res, found, working,
                   moved, note, restored, pre>>

\* replace_in_file 254-256: except OSError: os.unlink(tmp_path); raise
UnlinkTemp ==
    /\ pc = "unlink"
    /\ projects' = [projects EXCEPT ![encode_path(pre.path)].tmp = NoFile]
    /\ pc' = "raised"
    /\ UNCHANGED <<realDirs, history, backups, clock, args, res, found, working,
                   moved, err, note, restored, pre>>

NextAtomic ==
    \/ ReadLines
    \/ MakeTemp
    \/ WriteTemp
    \/ ReplaceFile
    \/ UnlinkTemp

SpecAtomic == InitAtomic /\ [][NextAtomic]_vars

-----------------------------------------------------------------------------
(* Claims about the rewrite of one file, statement by statement (checked   *)
(* under SpecAtomic)                                                       *)

\* the complete new content: every line as the loop rewrites it
NewContent ==
    File([i \in 1..Len(pre.file.lines) |->
            RewriteLine(pre.file.lines[i], pre.path, NewPath).line])

\* C18: the new content goes to a temporary file in the same directory that
\* is swapped into place in one step: at every point the file at the
\* original path holds the complete old or the complete new content; if
\* writing the temporary file or the swap fails, the temporary file is
\* removed, the original is untouched and the failure propagates; if no
\* line changed, no temporary file is created and the file is not replaced.
C18_AtomicRewrite ==
    /\ TheFile \in {pre.file, NewContent}
    /\ pc = "raised" =>
          /\ TheTemp = NoFile
          /\ TheFile = pre.file
          /\ err = "OSError"
    /\ (pc \in {"computed", "done"} /\ res.lines_changed = 0) =>
          /\ TheTemp = NoFile
          /\ TheFile = pre.file
    /\ (pc = "done" /\ res.lines_changed > 0 /\ ~args.dry_run) =>
          /\ TheTemp = NoFile
          /\ TheFile = NewContent

-----------------------------------------------------------------------------
(* find_latest_backup and list_backups (backup.py)                         *)
(*                                                                         *)
(* The backup root is NoRoot (it does not exist) or maps each name to what *)
(* it holds: NoBackup (nothing), StrayFile (a file), or a backup           *)
(* directory, with or without its manifest.                                *)

NoRoot == [k |-> "noroot"]
StrayFile == [k |-> "file"]

\* ord(c) of the characters names are made of, as far as their order goes
Ord(c) == CASE c = "0" -> 48 [] c = "1" -> 49 [] c = "2" -> 50 [] OTHER -> 97

\* a < b for str: the first differing character decides, a proper prefix
\* is smaller
RECURSIVE StrLess(_, _)
StrLess(a, b) ==
    IF b = <<>> THEN FALSE
    ELSE IF a = <<>> THEN TRUE
    ELSE IF Head(a) = Head(b) THEN StrLess(Tail(a), Tail(b))
    ELSE Ord(Head(a)) < Ord(Head(b))

\* sorted(names): ascending
RECURSIVE Sorted(_)
Sorted(names) ==
    IF names = {} THEN <<>>
    ELSE LET least == CHOOSE n \in names : \A m \in names \ {n} : StrLess(n, m)
         IN  <<least>> \o Sorted(names \ {least})

\* sorted(names, reverse=True)
SortedReverse(names) ==
    LET up == Sorted(names)
    IN  [i \in 1..Len(up) |-> up[Len(up) + 1 - i]]

\* d.is_dir() for the entry named n of the root
IsBackupDir(root, n) == root[n].k = "backup"

\* backup_base.iterdir()
Entries(root) == {n \in DOMAIN root : root[n] # NoBackup}

\* the greatest name taken from a list sorted without reverse=True
find_latest_backup_without_reverse(root) ==
    IF root = NoRoot THEN NoName
    ELSE LET ds == Sorted({n \in Entries(root) : IsBackupDir(root, n)})
         IN  IF ds = <<>> THEN NoName ELSE ds[1]

\* find_latest_backup(backup_base): a name, or NoName for None
find_latest_backup(root) ==
    IF root = NoRoot THEN NoName
    ELSE LET ds == SortedReverse({n \in Entries(root) : IsBackupDir(root, n)})
         IN  IF ds = <<>> THEN NoName ELSE ds[1]

\* the dict list_backups builds for the backup directory named n
Summary(root, n) ==
    LET m == root[n].manifest
    IN  [timestamp |-> n, path |-> n,
         project_dir |-> IF m = NoManifest THEN <<>> ELSE m.project_dir,
         has_merge_target |-> m # NoManifest /\ m.merge_target_dir # NoName]

\* the elements of seq from i on that name a directory of the root
RECURSIVE OnlyDirs(_, _, _)
OnlyDirs(root, seq, i) ==
    IF i > Len(seq) THEN <<>>
    ELSE IF IsBackupDir(root, seq[i])
         THEN <<Summary(root, seq[i])>> \o OnlyDirs(root, seq, i + 1)
         ELSE OnlyDirs(root, seq, i + 1)

\* list_backups(backup_base): every entry of the root in reverse sorted
\* order, the ones that are no directory skipped
list_backups(root) ==
    IF root = NoRoot THEN <<>>
    ELSE OnlyDirs(root, SortedReverse(Entries(root)), 1)

\* the names under the backup root: their order as strings is not their
\* order as numbers
BackupNames == {<<"1">>, <<"1", "0">>, <<"2">>, <<"a">>}

\* what a name of the root may hold
RootEntries ==
    {NoBackup, StrayFile,
     Backup(NoDir, NoDir, NoFile, NoManifest),
     Backup(ProjectDir(BackedUpPath, LiveName), NoDir, NoFile,
            Manifest(LiveName, NoName)),
     Backup(ProjectDir(BackedUpPath, LiveName), TargetDir, NoFile,
            Manifest(LiveName, ExtraName))}

InitList ==
    \E root \in {NoRoot} \cup [BackupNames -> RootEntries] :
        /\ backups = root
        /\ projects = NoProjects
        /\ history = NoFile
        /\ realDirs = NoRealDirs
        /\ clock = 1
        /\ pre = [k |-> "root", path |-> BackedUpPath, backups |-> root]
        /\ Idle

\* find_latest_backup(backup_base)
FindLatestBackup ==
    /\ pc \in {"idle", "listed"}
    /\ found' = find_latest_backup(backups)
    /\ pc' = IF pc = "idle" THEN "latest" ELSE "done"
    /\ args' = [op |-> "backups"]
    /\ UNCHANGED <<realDirs, projects, history, backups, clock, res, working,
                   moved, err, note, restored, pre>>

\* list_backups(backup_base)
ListBackups ==
    /\ pc \in {"idle", "latest"}
    /\ res' = [list |-> list_backups(backups)]
    /\ pc' = IF pc = "idle" THEN "listed" ELSE "done"
    /\ args' = [op |-> "backups"]
    /\ UNCHANGED <<realDirs, projects, history, backups, clock, found, working,
                   moved, err, note, restored, pre>>

NextList ==
    \/ FindLatestBackup
    \/ ListBackups

SpecList == InitList /\ [][NextList]_vars

-----------------------------------------------------------------------------
(* Claims about find_latest_backup and list_backups (checked under         *)
(* SpecList)                                                               *)

\* both functions have returned
BothReturned == pc = "done" /\ args.op = "backups"

\* the backup directories under the root
BackupDirs ==
    IF backups = NoRoot THEN {}
    ELSE {n \in DOMAIN backups : backups[n].k = "backup"}

\* C20: find_latest_backup and list_backups read only; list_backups returns
\* one summary per backup directory, in descending order of the names as
\* strings; find_latest_backup returns the directory with the greatest
\* name, which is the path of the first summary; with no backup directory
\* (the root empty or missing) they return none and the empty sequence.
C20_BackupsNewestFirst ==
    BothReturned =>
        /\ backups = pre.backups
        /\ Len(res.list) = Cardinality(BackupDirs)
        /\ {res.list[i].timestamp : i \in 1..Len(res.list)} = BackupDirs
        /\ \A i, j \in 1..Len(res.list) :
              i < j => StrLess(res.list[j].timestamp, res.list[i].timestamp)
        /\ IF BackupDirs = {} THEN found = NoName
           ELSE /\ found = res.list[1].path
                /\ \A n \in BackupDirs \ {found} : StrLess(n, found)

\* a root with the backup directories 1, 10 and 2 and a stray file a
C20_Witness ==
    /\ BothReturned
    /\ BackupDirs = {<<"1">>, <<"1", "0">>, <<"2">>}
    /\ backups[<<"a">>] = StrayFile
    /\ found = <<"2">>
    /\ Len(res.list) = 3
    /\ res.list[2].timestamp = <<"1", "0">>

-----------------------------------------------------------------------------
(* update_sessions_index (updaters.py), on the index files explored        *)

IndexedPath == <<"/", "a">>
IndexedName == encode_path(IndexedPath)

\* a fullPath that holds the encoded name twice
FullPathTwice(dir) == <<"/", "c", "/">> \o dir \o <<"/">> \o dir \o <<".jsonl">>

\* entries whose fields equal the path, extend it, or are about another
\* project
EntriesNear(p) ==
    {Entry("s1", pp, fp, "m1") :
        pp \in {p, Sibling(p)},
        fp \in {FullPath(encode_path(p), "s1"), FullPath(DriftName, "s1"),
                FullPathTwice(encode_path(p))}}

\* the index files explored: with at most MaxEntries entries, missing, not
\* JSON, not UTF-8
IndexFilesNear(p) ==
    {Index("orig", o, es) :
        o \in {p, Below(p), OtherPath, <<>>, Null},
        es \in UNION {[1..n -> EntriesNear(p)] : n \in 0..MaxEntries}}
    \cup {NoFile, BadIndex, UndecodableIndex, ListIndex}

InitIndex ==
    \E idx \in IndexFilesNear(IndexedPath) :
        /\ projects = [NoProjects EXCEPT ![IndexedName] = Dir(idx, NoLogs)]
        /\ history = NoFile
        /\ realDirs = NoRealDirs
        /\ backups = NoBackups
        /\ clock = 1
        /\ pre = [k |-> "index", path |-> IndexedPath, idx |-> idx]
        /\ Idle

\* the error update_sessions_index raises on the index file idx
IndexError(idx) ==
    CASE idx.k = "undecodable" -> "UnicodeDecodeError"
      [] idx.k = "list" -> "AttributeError"
      [] OTHER -> "OSError"

\* update_sessions_index(index_path, old_path, new_path, new_encoded_dir,
\* dry_run)
RewriteIndex ==
    /\ pc = "idle"
    /\ \E dry_run \in BOOLEAN, fail \in IndexFailures :
         \E u \in {update_sessions_index(projects[IndexedName].idx, IndexedPath,
                                         NewPath, encode_path(NewPath), dry_run,
                                         fail)} :
            /\ args' = [op |-> "index", old_path |-> IndexedPath,
                        new_path |-> NewPath, dry_run |-> dry_run]
            /\ projects' = [projects EXCEPT ![IndexedName].idx = u.idx]
            /\ res' = [res EXCEPT !.dry_run = dry_run,
                                  !.sessions_index_updated = u.ret]
            /\ pc' = IF u.raised THEN "raised" ELSE "done"
            /\ err' = IF u.raised THEN IndexError(projects[IndexedName].idx)
                      ELSE err
    /\ UNCHANGED <<realDirs, history, backups, clock, found, working, moved,
                   note, restored, pre>>

NextIndex == RewriteIndex

SpecIndex == InitIndex /\ [][NextIndex]_vars

-----------------------------------------------------------------------------
(* Claims about update_sessions_index (checked under SpecIndex)            *)

\* the call has ended, by returning or raising
IndexCallEnded == pc \in {"done", "raised"} /\ args.op = "index"

IndexAfter == projects[IndexedName].idx

\* the index file is missing or cannot be parsed
Unparseable(idx) == idx \in {NoFile, BadIndex, UndecodableIndex}

\* the fields the claim lets change, for an index that parses
OriginalPathChanges == pre.idx.originalPath = args.old_path
ProjectPathChanges(e) == e.projectPath = args.old_path
FullPathChanges(e) == Contains(e.fullPath, encode_path(args.old_path))
SomeFieldChanges ==
    \/ OriginalPathChanges
    \/ \E i \in 1..Len(pre.idx.entries) :
          ProjectPathChanges(pre.idx.entries[i]) \/ FullPathChanges(pre.idx.entries[i])

\* the content the claim asks of the written index
RewrittenAsClaimed(after) ==
    /\ after.k = "idx"
    /\ after.originalPath = IF OriginalPathChanges THEN args.new_path
                            ELSE pre.idx.originalPath
    /\ Len(after.entries) = Len(pre.idx.entries)
    /\ \A i \in 1..Len(pre.idx.entries) :
          LET e == pre.idx.entries[i]
              a == after.entries[i]
          IN  /\ a.sessionId = e.sessionId
              /\ a.meta = e.meta
              /\ a.projectPath = IF ProjectPathChanges(e) THEN args.new_path
                                 ELSE e.projectPath
              /\ IF FullPathChanges(e)
                 THEN /\ a.fullPath # e.fullPath
                      /\ Contains(a.fullPath, encode_path(args.new_path))
                 ELSE a.fullPath = e.fullPath

\* the claim for an index file that parses to an object
ParsedIndexRewritten ==
    (IndexCallEnded /\ pre.idx.k = "idx") =>
        /\ pc = "done" => (res.sessions_index_updated = 1 <=> SomeFieldChanges)
        /\ pc = "done" => res.sessions_index_updated \in {0, 1}
        /\ IndexAfter # pre.idx => (SomeFieldChanges /\ ~args.dry_run)
        /\ (pc = "done" /\ SomeFieldChanges /\ ~args.dry_run)
              => RewrittenAsClaimed(IndexAfter)

\* the claim for a missing or unparseable index file
UnparseableIndexSkipped ==
    (IndexCallEnded /\ Unparseable(pre.idx)) =>
        /\ pc = "done"
        /\ res.sessions_index_updated = 0
        /\ IndexAfter = pre.idx

\* C22: update_sessions_index returns 1 exactly when originalPath, an
\* entry's projectPath or an entry's fullPath changed, writes the index only
\* when it returns 1 outside a dry run, keeps every other field; for a
\* missing or unparseable index file it returns 0, raises nothing and
\* writes nothing.
C22_IndexRewrite == ParsedIndexRewritten /\ UnparseableIndexSkipped

\* the index file as a complete write would leave it
CompleteNewIndex ==
    update_sessions_index(pre.idx, args.old_path, args.new_path,
                          encode_path(args.new_path), FALSE, "none").idx

\* C28: the session index is replaced atomically, like log and history
\* files: whatever happens during an index write, the index file holds
\* either its complete old content or its complete new content, never a
\* partial file.
C28_IndexWriteAtomic ==
    (IndexCallEnded /\ pre.idx.k = "idx") =>
        IndexAfter \in {pre.idx, CompleteNewIndex}

\* C28 for the calls that return
IndexCompleteOnReturn ==
    (IndexCallEnded /\ pre.idx.k = "idx" /\ pc = "done") =>
        IndexAfter \in {pre.idx, CompleteNewIndex}

-----------------------------------------------------------------------------
(* _atomic_restore_dir (backup.py), statement by statement                 *)
(*                                                                         *)
(* backups[1].project_dir is backup_src, projects[LiveName] is target and  *)
(* projects[AsideName(LiveName)] is temp_old's path; `working` is temp_old *)
(* (NoName: None) and res keeps the files copytree has copied and the ones *)
(* whose copy failed (copytree goes on and raises at its end).             *)

InitRestoreDir ==
    \E src \in {ProjectDir(BackedUpPath, LiveName), TargetDir},
       live \in {NoDir, ProjectDir(BackedUpPath, LiveName), TargetDir},
       stale \in {NoDir, TargetDir} :
        /\ projects = [NoProjects EXCEPT ![LiveName] = live,
                                         ![AsideName(LiveName)] = stale]
        /\ history = NoFile
        /\ realDirs = NoRealDirs
        /\ backups = [NoBackups EXCEPT
                         ![1] = Backup(src, NoDir, NoFile, Manifest(LiveName, NoName))]
        /\ clock = 1
        /\ pre = [k |-> "restore", path |-> BackedUpPath,
                  projects |-> [NoProjects EXCEPT ![LiveName] = live,
                                                  ![AsideName(LiveName)] = stale]]
        /\ Idle

\* dir with the file f as src holds it
CopyInto(dir, src, f) ==
    IF f = "sessions-index.json" THEN [dir EXCEPT !.idx = src.idx]
    ELSE [dir EXCEPT !.logs[f] = src.logs[f]]

\* 114-117: temp_old = None; if target.exists(): temp_old = ...
BeginRestoreDir ==
    /\ pc = "idle"
    /\ args' = [op |-> "restore_dir", target |-> LiveName]
    /\ res' = [copied |-> {}, failed |-> {}]
    /\ IF projects[LiveName] # NoDir
       THEN working' = AsideName(LiveName) /\ pc' = "stale"
       ELSE working' = NoName /\ pc' = "copytree"
    /\ UNCHANGED <<realDirs, projects, history, backups, clock, found, moved,
                   err, note, restored, pre>>

\* 119-120: if temp_old.exists(): shutil.rmtree(temp_old)
RemoveStale ==
    /\ pc = "stale"
    /\ IF projects[working] # NoDir
       THEN \E fails \in BOOLEAN :
              IF fails THEN pc' = "except" /\ UNCHANGED projects
              ELSE /\ projects' = [projects EXCEPT ![working] = NoDir]
                   /\ pc' = "rename"
       ELSE pc' = "rename" /\ UNCHANGED projects
    /\ UNCHANGED <<realDirs, history, backups, clock, args, res, found, working,
                   moved, err, note, restored, pre>>

\* 121: os.rename(target, temp_old)
RenameAside ==
    /\ pc = "rename"
    /\ \E fails \in BOOLEAN :
         IF fails THEN pc' = "except" /\ UNCHANGED projects
         ELSE /\ projects' = [projects EXCEPT ![working] = projects[args.target],
                                              ![args.target] = NoDir]
              /\ pc' = "copytree"
    /\ UNCHANGED <<realDirs, history, backups, clock, args, res, found, working,
                   moved, err, note, restored, pre>>

\* 122: shutil.copytree, its os.makedirs(dst), which raises when dst exists
MakeTarget ==
    /\ pc = "copytree"
    /\ IF projects[args.target] # NoDir
       THEN pc' = "except" /\ UNCHANGED projects
       ELSE \E fails \in BOOLEAN :
              IF fails THEN pc' = "except" /\ UNCHANGED projects
              ELSE /\ projects' =
                        [projects EXCEPT
                            ![args.target] = EmptyCopy(backups[1].project_dir)]
                   /\ pc' = "copying"
    /\ UNCHANGED <<realDirs, history, backups, clock, args, res, found, working,
                   moved, err, note, restored, pre>>

\* 122: shutil.copytree, the copy of one more file, in the order of
\* os.scandir; the errors are raised once every file was tried
CopyFile ==
    /\ pc = "copying"
    /\ \E left \in {FilesOf(backups[1].project_dir) \ (res.copied \cup res.failed)} :
         IF left = {}
         THEN /\ pc' = IF res.failed # {} THEN "except" ELSE "cleanup"
              /\ UNCHANGED <<projects, res>>
         ELSE \E f \in left, fails \in BOOLEAN :
                /\ pc' = pc
                /\ IF fails
                   THEN /\ res' = [res EXCEPT !.failed = @ \cup {f}]
                        /\ UNCHANGED projects
                   ELSE /\ res' = [res EXCEPT !.copied = @ \cup {f}]
                        /\ projects' =
                             [projects EXCEPT
                                 ![args.target] =
                                     CopyInto(@, backups[1].project_dir, f)]
    /\ UNCHANGED <<realDirs, history, backups, clock, args, found, working,
                   moved, err, note, restored, pre>>

\* 124-126: if temp_old and temp_old.exists(): rmtree(temp_old); return True
CleanupAside ==
    /\ pc = "cleanup"
    /\ IF working # NoName /\ projects[working] # NoDir
       THEN \E fails \in BOOLEAN :
              IF fails
              THEN pc' = "except" /\ UNCHANGED <<projects, restored>>
              ELSE /\ projects' = [projects EXCEPT ![working] = NoDir]
                   /\ pc' = "done" /\ restored' = "ok"
       ELSE pc' = "done" /\ restored' = "ok" /\ UNCHANGED projects
    /\ UNCHANGED <<realDirs, history, backups, clock, args, res, found, working,
                   moved, err, note, pre>>

\* 127-131: except OSError: rename temp_old back when target does not
\* exist; return False.  The rename has no handler of its own.
RestoreHandler ==
    /\ pc = "except"
    /\ IF working # NoName /\ projects[working] # NoDir
                           /\ projects[args.target] = NoDir
       THEN \E fails \in BOOLEAN :
              IF fails
              THEN /\ pc' = "raised" /\ err' = "OSError"
                   /\ UNCHANGED <<projects, restored>>
              ELSE /\ projects' = [projects EXCEPT
                                      ![args.target] = projects[working],
                                      ![working] = NoDir]
                   /\ pc' = "done" /\ restored' = "failed"
                   /\ UNCHANGED err
       ELSE /\ pc' = "done" /\ restored' = "failed"
            /\ UNCHANGED <<projects, err>>
    /\ UNCHANGED <<realDirs, history, backups, clock, args, res, found, working,
                   moved, note, pre>>

NextRestoreDir ==
    \/ BeginRestoreDir
    \/ RemoveStale
    \/ RenameAside
    \/ MakeTarget
    \/ CopyFile
    \/ CleanupAside
    \/ RestoreHandler

SpecRestoreDir == InitRestoreDir /\ [][NextRestoreDir]_vars

-----------------------------------------------------------------------------
(* Claims about the steps of a directory restore (checked under            *)
(* SpecRestoreDir)                                                         *)

\* a restore of a directory whose target existed when it started is under
\* way or has ended
RestoringOverLive ==
    args.op = "restore_dir" /\ pre.projects[args.target] # NoDir

\* C23: during a directory restore whose live target exists when the
\* restore starts, a directory exists at the target path in every state
\* from the start of the restore to its end.
C23_TargetNeverMissing ==
    RestoringOverLive => projects[args.target] # NoDir

\* the same once _atomic_restore_dir has returned
TargetExistsOnReturn ==
    (RestoringOverLive /\ pc = "done") => projects[args.target] # NoDir

\* _atomic_restore_dir has returned True
RestoreDirSucceeded ==
    args.op = "restore_dir" /\ pc = "done" /\ restored = "ok"

\* C32: a directory restore removes any stale aside-temporary before it
\* starts and leaves none behind: whether the live target is present or
\* missing, and whether an interrupted restore left an aside-temporary or
\* not, after a directory restore that returns success no aside-temporary
\* exists.
C32_NoAsideLeftBehind ==
    RestoreDirSucceeded => projects[AsideName(args.target)] = NoDir

\* the same for the restores whose live target was present at the start
NoAsideLeftOverLiveTarget ==
    (RestoreDirSucceeded /\ pre.projects[args.target] # NoDir)
        => projects[AsideName(args.target)] = NoDir

\* a successful restore over a live target that removed a stale
\* aside-temporary
StaleAsideRemoved ==
    /\ RestoreDirSucceeded
    /\ pre.projects[args.target] # NoDir
    /\ pre.projects[AsideName(args.target)] # NoDir
    /\ projects[AsideName(args.target)] = NoDir

-----------------------------------------------------------------------------
(* move and remap with merge, on disks where a stored directory already    *)
(* sits at the new path's encoded name                                     *)

\* a stored directory at the new path's name with its own session s1: the
\* same id, and the same log file name, as the session of ProjectDir
ClashDir ==
    Dir(Index("orig", NewPath,
              <<Entry("s1", NewPath, FullPath(encode_path(NewPath), "s1"), "n1")>>),
        [f \in LogNames |->
            CASE f = "s1.jsonl" -> File(<< Line(Cwd1(NewPath)) >>)
              [] OTHER -> NoFile])

\* what sits at the new path's name: another session, the same session, a
\* directory without index file, a directory whose index is not JSON
MergeTargets ==
    {TargetDir, ClashDir, [TargetDir EXCEPT !.idx = NoFile],
     [TargetDir EXCEPT !.idx = BadIndex]}

InitMergeDirs ==
    \E dst \in MergeTargets, moved_by_hand \in BOOLEAN :
        /\ realDirs = [p \in RealPaths |->
                         IF p = MergedPath
                         THEN IF moved_by_hand THEN "absent" ELSE "files"
                         ELSE IF p = NewPath
                         THEN IF moved_by_hand THEN "files" ELSE "absent"
                         ELSE "absent"]
        /\ projects = [NoProjects EXCEPT
                          ![SrcName] = ProjectDir(MergedPath, SrcName),
                          ![DstName] = dst]
        /\ history = HistoryOf(MergedPath)
        /\ backups = NoBackups
        /\ clock = 1
        /\ pre = [k |-> "none", path |-> MergedPath]
        /\ Idle

\* restore_backup(result.backup_path), run once the operation has returned
\* (claudepath restore)
RestoreAfterReturn ==
    /\ pc = "done"
    /\ res.backup_path # 0
    /\ \E r \in {restore_backup(backups[res.backup_path], projects, history,
                                NoRestoreFailure, NoDir, NoDir)} :
         /\ projects' = r.projects
         /\ history' = r.history
         /\ restored' = IF r.ok THEN "ok" ELSE "failed"
    /\ pc' = "restored"
    /\ UNCHANGED <<realDirs, backups, clock, args, res, found, working, moved,
                   err, note, pre>>

NextMergeDirs ==
    \/ Next
    \/ RestoreAfterReturn

SpecMergeDirs == InitMergeDirs /\ [][NextMergeDirs]_vars

-----------------------------------------------------------------------------
(* Claims about the merge of two stored directories (checked under         *)
(* SpecMergeDirs)                                                          *)

\* the log file of a session
LogOf(sessionId) == IF sessionId = "s1" THEN "s1.jsonl" ELSE "s2.jsonl"

\* the operation was called with merge and found two stored directories
MergeCalled ==
    /\ pc # "idle" /\ args.op \in {"move", "remap"} /\ args.merge
    /\ found # NoName /\ found # NewEncoded
    /\ pre.projects[found] # NoDir /\ pre.projects[NewEncoded] # NoDir

\* the merge has been carried out, not as a dry run, and nothing was
\* restored since
Merged ==
    /\ MergeCalled /\ ~args.dry_run /\ res.project_dir_renamed
    /\ pc \in {"index", "logs", "history", "done"}

\* the entries of an index file
EntriesOf(idx) == IF idx.k = "idx" THEN idx.entries ELSE <<>>

\* the sessions both directories held when the operation was called: an
\* index entry and a log file
SharedSessions ==
    {sid \in IdsOf(EntriesOf(pre.projects[found].idx))
             \cap IdsOf(EntriesOf(pre.projects[NewEncoded].idx)) :
        /\ pre.projects[found].logs[LogOf(sid)] # NoFile
        /\ pre.projects[NewEncoded].logs[LogOf(sid)] # NoFile}

\* a file with the old path rewritten to the new path
PathRewritten(file) ==
    replace_in_file(file, args.old_path, args.new_path, FALSE, "none").file

\* the destination's own index entry for sid is still its entry
KeepsOwnEntry(sid) ==
    \A i \in 1..Len(EntriesOf(pre.projects[NewEncoded].idx)) :
        pre.projects[NewEncoded].idx.entries[i].sessionId = sid =>
            /\ i <= Len(EntriesOf(projects[NewEncoded].idx))
            /\ projects[NewEncoded].idx.entries[i].sessionId = sid
            /\ projects[NewEncoded].idx.entries[i].meta
                  = pre.projects[NewEncoded].idx.entries[i].meta
            /\ Cardinality({j \in 1..Len(projects[NewEncoded].idx.entries) :
                              projects[NewEncoded].idx.entries[j].sessionId = sid}) = 1

\* the destination's own log file for sid still has its content
KeepsOwnLog(sid) ==
    projects[NewEncoded].logs[LogOf(sid)]
        \in {pre.projects[NewEncoded].logs[LogOf(sid)],
             PathRewritten(pre.projects[NewEncoded].logs[LogOf(sid)])}

\* the index half of C24
C24_DestinationKeepsItsEntry ==
    Merged => \A sid \in SharedSessions : KeepsOwnEntry(sid)

\* C24: first-writer-wins for the whole merge: for a session both stored
\* directories hold (index entry and log file), after the merge the
\* destination keeps its own index entry and its own log file content, up
\* to path rewriting.
C24_FirstWriterWins ==
    Merged => \A sid \in SharedSessions : KeepsOwnEntry(sid) /\ KeepsOwnLog(sid)

\* the sessions of the source index that the destination index did not
\* hold when the operation was called
FreshSessions ==
    IdsOf(EntriesOf(pre.projects[found].idx))
        \ IdsOf(EntriesOf(pre.projects[NewEncoded].idx))

\* every such session has an entry in the destination index
NoSessionLost == FreshSessions \subseteq IdsOf(EntriesOf(projects[NewEncoded].idx))

\* the source stored directory has been deleted by the merge
SourceDeleted ==
    /\ MergeCalled /\ ~args.dry_run /\ restored = "none"
    /\ pc \in {"index", "logs", "history", "done", "rollback"}
    /\ projects[found] = NoDir

\* C25: a merge loses no session record: after a successful merge that is
\* not a dry run, every entry of the source index whose id the destination
\* index did not hold is in the destination index, also when the
\* destination has no index file or one that does not parse; the source
\* directory is deleted only when that holds.
C25_MergeLosesNoSession ==
    (Merged \/ SourceDeleted) => NoSessionLost

\* C25 for a destination whose index file parses
C25_LosesNoSessionWithParsedIndex ==
    ((Merged \/ SourceDeleted) /\ pre.projects[NewEncoded].idx.k = "idx")
        => NoSessionLost

\* every log file the source held is at the destination, as the source
\* held it or with its paths rewritten since
AllCopied ==
    \A f \in JsonlFiles(pre.projects[found]) :
        projects[NewEncoded].logs[f]
            \in {pre.projects[found].logs[f],
                 PathRewritten(pre.projects[found].logs[f])}

\* the source stored directory is as it was when the operation was called
SourceIntact == projects[found] = pre.projects[found]

\* no log file of the destination has been touched
NothingCopied == projects[NewEncoded].logs = pre.projects[NewEncoded].logs

\* the destination's index file is its own: what it was, or that with
\* entries appended
IndexIsDestinations ==
    IF pre.projects[NewEncoded].idx.k = "idx"
    THEN /\ projects[NewEncoded].idx.k = "idx"
         /\ Len(projects[NewEncoded].idx.entries)
               >= Len(pre.projects[NewEncoded].idx.entries)
         /\ \A i \in 1..Len(pre.projects[NewEncoded].idx.entries) :
               projects[NewEncoded].idx.entries[i].sessionId
                  = pre.projects[NewEncoded].idx.entries[i].sessionId
    ELSE projects[NewEncoded].idx = pre.projects[NewEncoded].idx

\* a merge that is not a dry run is under way and no restore has run
Merging == MergeCalled /\ ~args.dry_run /\ restored = "none"

\* C26: merge ordering: the session index merge comes first, then the copy
\* of the source's other files into the destination (the source's index
\* file is never copied over the destination's), then the deletion of the
\* source; the source is deleted only after every copy has succeeded, so a
\* failure in an earlier step leaves the source with all its files.
C26_MergeOrder ==
    /\ (Merging /\ pc = "merge_dirs") => (NothingCopied /\ SourceIntact)
    /\ (Merging /\ projects[NewEncoded].idx # BadIndex) => IndexIsDestinations
    /\ (Merging /\ projects[found] = NoDir) => AllCopied
    /\ (Merging /\ pc = "rollback" /\ ~AllCopied /\ ~res.project_dir_renamed)
          => SourceIntact

\* the copy of a file failed after another file had been copied: the source
\* still has all its files
C26_Witness ==
    /\ Merging /\ pc = "rollback" /\ ~res.project_dir_renamed
    /\ ~AllCopied /\ ~NothingCopied
    /\ SourceIntact
    /\ JsonlFiles(projects[found]) = {"s1.jsonl", "s1/subagents/agent.jsonl"}

\* the backup the operation took
TakenBackup == backups[res.backup_path]

\* a merge with backups on has taken its backup
MergeBackedUp ==
    MergeCalled /\ ~args.dry_run /\ ~args.no_backup /\ res.backup_path # 0

\* both stored directories are as they were when the operation was called
BothAsBefore ==
    /\ projects[found] = pre.projects[found]
    /\ projects[NewEncoded] = pre.projects[NewEncoded]

\* C27: with merge requested, backups on and a stored directory at the new
\* encoded name, the backup taken before the merge holds copies of the
\* source and of the destination stored directory and its manifest names
\* both; a restore of that backup that succeeds, after a failed or a
\* completed merge, returns both directories to their content before the
\* merge.
C27_MergeBackupHoldsBoth ==
    MergeBackedUp =>
        /\ TakenBackup.project_dir = pre.projects[found]
        /\ TakenBackup.merge_target_dir = pre.projects[NewEncoded]
        /\ TakenBackup.manifest = Manifest(found, NewEncoded)
        /\ (pc \in {"raised", "restored"} /\ restored = "ok") => BothAsBefore

\* the merge completed, overwrote a log file of the destination and removed
\* the source; the restore brought both back
C27_Witness ==
    /\ MergeBackedUp /\ pc = "restored" /\ restored = "ok"
    /\ res.project_dir_renamed
    /\ pre.projects[NewEncoded] = ClashDir
    /\ BothAsBefore

\* the merge failed and the rollback's restore brought both back
MergeRolledBack ==
    /\ MergeBackedUp /\ pc = "raised" /\ restored = "ok"
    /\ note = "rolled_back"
    /\ BothAsBefore

-----------------------------------------------------------------------------
(* Two create_backup calls under one backup base (backup.py), the live     *)
(* files being changed and the clock advancing, or not, in between         *)

\* datetime.now() moves on to the next second
Tick ==
    /\ pc = "backed"
    /\ clock < MaxClock
    /\ clock' = clock + 1
    /\ UNCHANGED <<realDirs, projects, history, backups, pc, args, res, found,
                   working, moved, err, note, restored, pre>>

\* a second create_backup(project_dir, history_path, backup_base, extra_dir)
\* after one that returned: its backup directory is the one named by the
\* second of the clock, which is the first call's when no Tick came between
CreateBackupAgain ==
    /\ pc = "backed"
    /\ \E extra_dir \in {NoName, ExtraName}, fail \in BackupFailures :
         \E b \in {create_backup(backups[clock], projects, history, LiveName,
                                 extra_dir, fail)} :
            /\ backups' = [backups EXCEPT ![clock] = b.backup]
            /\ args' = [op |-> "backup_again", project_dir |-> LiveName,
                        extra_dir |-> extra_dir, fail |-> fail,
                        first |-> res.backup_path,
                        kept |-> backups[res.backup_path]]
            /\ res' = [res EXCEPT !.backup_path = IF b.raised THEN 0 ELSE clock]
            /\ pc' = IF b.raised THEN "raised" ELSE "backed_again"
            /\ err' = IF b.raised THEN "OSError" ELSE err
    /\ UNCHANGED <<realDirs, projects, history, clock, found, working, moved,
                   note, restored, pre>>

NextTwoBackups ==
    \/ CreateBackup
    \/ ChangeDir
    \/ ChangeHistory
    \/ Tick
    \/ CreateBackupAgain

SpecTwoBackups == InitBackup /\ [][NextTwoBackups]_vars

-----------------------------------------------------------------------------
(* Claims about two backups (checked under SpecTwoBackups)                 *)

\* the second call ended, nothing of its own having been made to fail
SecondBackupEnded ==
    /\ pc \in {"backed_again", "raised"}
    /\ args.op = "backup_again"
    /\ args.fail = "none"

\* C30: every createBackup call creates a backup directory of its own, and
\* a backup, once created, is never modified: two calls under the same
\* base, whatever the time between them, return distinct directories, and
\* the second neither fails because of the first nor changes the files the
\* first one holds.
C30_BackupsDistinctAndImmutable ==
    SecondBackupEnded =>
        /\ pc = "backed_again"
        /\ res.backup_path # args.first
        /\ backups[args.first] = args.kept

\* two calls in different seconds return distinct directories, and the
\* first backup is as it was
BackupsOfDifferentSeconds ==
    (SecondBackupEnded /\ clock # args.first) =>
        /\ pc = "backed_again"
        /\ res.backup_path # args.first
        /\ backups[args.first] = args.kept

\* a second call in the same second that returned the first call's
\* directory, having replaced the history file kept there
SameSecondOverwrites ==
    /\ SecondBackupEnded /\ pc = "backed_again"
    /\ res.backup_path = args.first
    /\ backups[args.first].history # args.kept.history

\* a second call in the same second that raised on the first call's copy
SameSecondRaises ==
    /\ SecondBackupEnded /\ pc = "raised"
    /\ clock = args.first
    /\ args.kept.project_dir # NoDir

-----------------------------------------------------------------------------
(* move and remap on disks where the stored directory of the project may   *)
(* already sit at the new path's encoded name, its index still naming the  *)
(* old path (the project was moved and the directory renamed by hand)      *)

DriftedPath == <<"/", "a">>

\* a stored directory that holds a session index and no log file
IndexOnly(dir) == Dir(dir.idx, NoLogs)

\* what the directory at the new path's encoded name may be
DriftedDirs ==
    {NoDir,
     ProjectDir(DriftedPath, encode_path(NewPath)),
     IndexOnly(ProjectDir(DriftedPath, encode_path(NewPath)))}

InitDrift ==
    \E atOld \in {"absent", "files"}, atNew \in RealStates,
       hist \in {NoFile, HistoryOf(DriftedPath)},
       encoded \in {NoDir, ProjectDir(DriftedPath, encode_path(DriftedPath))},
       renamed \in DriftedDirs,
       drifted \in {NoDir, IndexOnly(ProjectDir(DriftedPath, DriftName))} :
        /\ realDirs = [p \in RealPaths |->
                         IF p = DriftedPath THEN atOld
                         ELSE IF p = NewPath THEN atNew ELSE "absent"]
        /\ projects = [n \in AllNames |->
                         CASE n = encode_path(DriftedPath) -> encoded
                           [] n = encode_path(NewPath) -> renamed
                           [] n = DriftName -> drifted
                           [] OTHER -> NoDir]
        /\ history = hist
        /\ backups = NoBackups
        /\ clock = 1
        /\ pre = [k |-> "none", path |-> DriftedPath]
        /\ Idle

SpecDrift == InitDrift /\ [][Next]_vars

-----------------------------------------------------------------------------
(* Claims about the stored directory after the call (checked under         *)
(* SpecDrift)                                                              *)

\* a move or remap that changed the disk has returned, having located a
\* stored directory for the old path
LocatedAndReturned ==
    /\ pc = "done" /\ args.op \in {"move", "remap"}
    /\ ~args.dry_run
    /\ found # NoName

\* C35: after every successful non-dry-run move or remap in which a stored
\* directory was located for the old path, a stored directory exists at the
\* new encoded name and holds the located directory's session index and
\* log files, with and without merge, and also when the located directory
\* is itself the directory at the new encoded name, which the operation
\* never deletes.
C35_StoredDirAtNewName ==
    LocatedAndReturned =>
        /\ Exists(projects, NewEncoded)
        /\ FilesOf(pre.projects[found]) \subseteq FilesOf(projects[NewEncoded])

\* the same when the located directory is not the one at the new encoded
\* name
StoredDirAtNewNameUnlessSelf ==
    (LocatedAndReturned /\ found # NewEncoded) =>
        /\ Exists(projects, NewEncoded)
        /\ FilesOf(pre.projects[found]) \subseteq FilesOf(projects[NewEncoded])

\* a merge of the directory at the new encoded name into itself returned,
\* the directory being gone
SelfMergeDeleted ==
    /\ LocatedAndReturned
    /\ args.merge
    /\ found = NewEncoded
    /\ pre.projects[NewEncoded] # NoDir
    /\ projects[NewEncoded] = NoDir

-----------------------------------------------------------------------------
(* The rewrite of one file (updaters.py) run twice with the same paths,    *)
(* the new path being elsewhere or below the old one                       *)

\* the new paths explored for the old path p
NewPathsFor(p) == {NewPath, Below(p)}

InitRewriteTwice ==
    \E p \in TrackedPaths : \E file \in FilesNear(p), new \in NewPathsFor(p) :
        /\ history = file
        /\ projects = [NoProjects EXCEPT
                          ![encode_path(p)] =
                              Dir(NoFile, [NoLogs EXCEPT !["s1.jsonl"] = file])]
        /\ realDirs = NoRealDirs
        /\ backups = NoBackups
        /\ clock = 1
        /\ pre = [k |-> "file", path |-> p, file |-> file, new |-> new]
        /\ Idle

\* update_history(history_path, old_path, new_path, dry_run=False), on the
\* file as it is, then once more on its result
RewriteHistoryTwice ==
    /\ pc \in {"idle", "once"}
    /\ pc = "once" => args.target = "history"
    /\ \E u \in {update_history(history, pre.path, pre.new, FALSE, "none")} :
         /\ history' = u.file
         /\ args' = [op |-> "rewrite", target |-> "history", old_path |-> pre.path,
                     new_path |-> pre.new, dry_run |-> FALSE,
                     first |-> IF pc = "idle" THEN u.file ELSE args.first]
         /\ res' = [res EXCEPT !.history_lines_changed = u.count]
    /\ pc' = IF pc = "idle" THEN "once" ELSE "twice"
    /\ UNCHANGED <<realDirs, projects, backups, clock, found, working, moved,
                   err, note, restored, pre>>

\* update_jsonl_files(project_dir, old_path, new_path, dry_run=False), on
\* the directory as it is, then once more on its result
RewriteLogsTwice ==
    /\ pc \in {"idle", "once"}
    /\ pc = "once" => args.target = "logs"
    /\ \E u \in {update_jsonl_files(projects[encode_path(pre.path)], pre.path,
                                    pre.new, FALSE, "", {})} :
         /\ projects' = [projects EXCEPT ![encode_path(pre.path)].logs = u.logs]
         /\ args' = [op |-> "rewrite", target |-> "logs", old_path |-> pre.path,
                     new_path |-> pre.new, dry_run |-> FALSE,
                     first |-> IF pc = "idle" THEN u.logs["s1.jsonl"]
                               ELSE args.first]
         /\ res' = [res EXCEPT !.jsonl_files_updated = u.files_updated,
                               !.jsonl_lines_changed = u.total_lines_changed]
    /\ pc' = IF pc = "idle" THEN "once" ELSE "twice"
    /\ UNCHANGED <<realDirs, history, backups, clock, found, working, moved,
                   err, note, restored, pre>>

NextRewriteTwice ==
    \/ RewriteHistoryTwice
    \/ RewriteLogsTwice

SpecRewriteTwice == InitRewriteTwice /\ [][NextRewriteTwice]_vars

-----------------------------------------------------------------------------
(* Claims about a repeated rewrite (checked under SpecRewriteTwice)        *)

\* the second rewrite has returned
RewrittenTwice == pc = "twice" /\ args.op = "rewrite"

\* the number of changed lines the last rewrite reported
LinesReported ==
    IF args.target = "history" THEN res.history_lines_changed
    ELSE res.jsonl_lines_changed

\* C36: the line-level rewrite is idempotent: for every file content and
\* every pair of distinct old and new paths, a second rewriteLogs or
\* rewriteHistory with the same paths reports zero changed lines and leaves
\* the file identical to the result of the first, also when the new path
\* lies under the old path.
C36_RewriteIdempotent ==
    RewrittenTwice =>
        /\ LinesReported = 0
        /\ Rewritten = args.first

\* the same for a new path that does not lie under the old path
IdempotentUnlessNewBelowOld ==
    (RewrittenTwice /\ args.new_path = NewPath) =>
        /\ LinesReported = 0
        /\ Rewritten = args.first

\* a second rewrite towards a path below the old one that changed the file
\* again
SecondRewriteChanged ==
    /\ RewrittenTwice
    /\ args.new_path = Below(args.old_path)
    /\ LinesReported > 0
    /\ Rewritten # args.first

-----------------------------------------------------------------------------
(* Claims about the lines of a rewritten file (checked under SpecRewrite)  *)

\* the lines of the file that differ after the rewrite
LinesAltered ==
    {i \in 1..Len(pre.file.lines) : Rewritten.lines[i] # pre.file.lines[i]}

\* the lines of the file that held the old path as a raw substring
LinesNaming ==
    {i \in 1..Len(pre.file.lines) : Contains(pre.file.lines[i], args.old_path)}

\* C37: the line-level rewrite keeps the line structure of a file: the
\* rewritten file has as many lines as the original, in the same order,
\* every line that does not contain the old path as a raw substring is
\* passed through unchanged, and a line is counted as changed only if a
\* replacement occurred on it.
C37_LineStructureKept ==
    RewriteDone =>
        /\ Len(Rewritten.lines) = Len(pre.file.lines)
        /\ LinesAltered \subseteq LinesNaming
        /\ LinesReported = Cardinality(LinesAltered \cap LinesNaming)

\* the same for the files whose bytes are all valid UTF-8
LineStructureKeptOfDecodable ==
    (RewriteDone /\ \A i \in 1..Len(pre.file.lines) :
                       pre.file.lines[i] = ReadLine(pre.file.lines[i])) =>
        /\ Len(Rewritten.lines) = Len(pre.file.lines)
        /\ LinesAltered \subseteq LinesNaming
        /\ LinesReported = Cardinality(LinesAltered \cap LinesNaming)

\* a rewrite that altered a line which does not name the old path
UnnamedLineAltered ==
    /\ RewriteDone
    /\ LinesReported = 1
    /\ \E i \in LinesAltered : i \notin LinesNaming

-----------------------------------------------------------------------------
(* move and remap interrupted after the backup was taken, and the backup   *)
(* restored by hand afterwards (cli.py cmd_restore)                        *)

\* the steps of a call at which it may be interrupted: before any step
\* that follows the backup, after a step has raised and before the except
\* clause runs, and after the last step before the call returns
InterruptedAt ==
    {"move", "rename", "merge_dirs", "index", "logs", "history", "rollback", "done"}

\* the process is killed, no except clause runs; restore_backup is then
\* run on the backup the call had taken
Interrupt ==
    /\ pc \in InterruptedAt
    /\ args.op \in {"move", "remap"}
    /\ ~args.dry_run
    /\ res.backup_path # 0
    /\ \E r \in {restore_backup(backups[res.backup_path], projects, history,
                                NoRestoreFailure, NoDir, NoDir)} :
         /\ projects' = r.projects
         /\ history' = r.history
         /\ restored' = IF r.ok THEN "ok" ELSE "failed"
         /\ args' = [op |-> args.op, old_path |-> args.old_path,
                     new_path |-> args.new_path, dry_run |-> args.dry_run,
                     no_backup |-> args.no_backup, merge |-> args.merge,
                     at |-> pc,
                     interrupted |-> [projects |-> projects, history |-> history],
                     after |-> [projects |-> r.projects, history |-> r.history]]
    /\ pc' = "recovered"
    /\ UNCHANGED <<realDirs, backups, clock, res, found, working, moved, err,
                   note, pre>>

\* restore_backup run a second time on the same backup
RestoreAgain ==
    /\ pc = "recovered"
    /\ \E r \in {restore_backup(backups[res.backup_path], projects, history,
                                NoRestoreFailure, NoDir, NoDir)} :
         /\ projects' = r.projects
         /\ history' = r.history
         /\ restored' = IF r.ok THEN "ok" ELSE "failed"
    /\ pc' = "recovered_again"
    /\ UNCHANGED <<realDirs, backups, clock, args, res, found, working, moved,
                   err, note, pre>>

NextRecover ==
    \/ Next
    \/ Interrupt
    \/ RestoreAgain

SpecRecover == Init /\ [][NextRecover]_vars

-----------------------------------------------------------------------------
(* Claims about the recovery (checked under SpecRecover)                   *)

\* C38: if a non-dry-run move or remap with backups enabled is interrupted
\* at any step after its backup was created, no rollback code running,
\* then restore_backup on that backup returns the stored directory at its
\* original location and the history file to their content of before the
\* operation, and a second restore_backup leaves the state the first left.
C38_RestoreRecoversInterrupted ==
    /\ pc \in {"recovered", "recovered_again"} =>
          /\ restored = "ok"
          /\ projects[found] = pre.projects[found]
          /\ history = pre.history
    /\ pc = "recovered_again" =>
          /\ projects = args.after.projects
          /\ history = args.after.history

\* an interruption after the stored directory was renamed and the history
\* file rewritten, restored twice
C38_Witness ==
    /\ pc = "recovered_again"
    /\ args.at = "done"
    /\ res.project_dir_renamed
    /\ args.interrupted.projects[found] = NoDir
    /\ args.interrupted.history # pre.history
    /\ projects[found] = pre.projects[found]
    /\ history = pre.history

\* an interruption after a step had raised, a log file being rewritten and
\* another not, restored
RecoveredFromHalfRewrittenLogs ==
    /\ pc = "recovered"
    /\ args.at = "rollback"
    /\ args.interrupted.projects[NewEncoded] # NoDir
    /\ args.interrupted.projects[NewEncoded].logs # pre.projects[found].logs
    /\ projects[found] = pre.projects[found]

====
